---- MODULE Spec2Model ----
(***************************************************************************)
(* State-machine model of the game server (AlexS303E/cpp-backend-game).    *)
(*                                                                         *)
(* Numbers.  Coordinates, widths and displacements are integers counted in *)
(* tenths of a map unit (0.4 is 4, 0.6 is 6, a road end at x = 10 is 100), *)
(* times are integers counted in seconds, so that every comparison the     *)
(* code makes on doubles is made here on exact values.  A ratio (the event *)
(* time of the collision detector) is kept as a pair num/den and compared  *)
(* by cross-multiplication.                                                *)
(***************************************************************************)
EXTENDS Integers, Sequences, FiniteSets, TLC

VARIABLES
    walk,      \* one dog walking a map: the inputs and the result of MoveDog
    gather,    \* one call of FindGatherEvents: the provider and the events
    collide,   \* one call of HandleCollisions: the session before and after
    conc,      \* the threads of the server: the game loop, the strand and its queue
    save,      \* the snapshot writers, the state file and its temporary file
    trip,      \* one round trip of a game through Serialize and Deserialize
    args,      \* the command line of the server (Args)
    host,      \* the statement main is at
    sessions_,                  \* Game::sessions_
    retired_player_callback_,   \* Game::retired_player_callback_ holds a function
    game_loop_running_,         \* Game::game_loop_running_
    update_period_,             \* Game::update_period_
    next_player_id_,            \* RequestHandler::next_player_id_
    records,   \* the rows RecordRepository::AddRecord was called with
    clock,     \* the game time ticked so far, in seconds
    action_count,   \* the player actions served so far
    last       \* the last operation and what its tick spawned, processed and retired

gameVars == <<args, host, sessions_, retired_player_callback_, game_loop_running_,
              update_period_, next_player_id_, records, clock, action_count, last>>

vars == <<walk, gather, collide, conc, save, trip, gameVars>>

-----------------------------------------------------------------------------
(* Arithmetic helpers (std::min, std::max, std::clamp, std::abs).          *)

Min(a, b) == IF a < b THEN a ELSE b

Max(a, b) == IF a > b THEN a ELSE b

Clamp(v, lo, hi) == IF v < lo THEN lo ELSE IF hi < v THEN hi ELSE v

Abs(a) == IF a < 0 THEN -a ELSE a

Range(s) == {s[i] : i \in DOMAIN s}

-----------------------------------------------------------------------------
(* geom.h                                                                  *)

Position(x, y) == [x |-> x, y |-> y]

Speed(vx, vy) == [vx |-> vx, vy |-> vy]

MoveResult(position, hit_boundary) ==
    [position |-> position, hit_boundary |-> hit_boundary]

-----------------------------------------------------------------------------
(* model.h / model.cpp: Road                                               *)

\* Road::width_, the half-width of the walkable strip (0.4)
width_ == 4

HorizontalRoad(x0, y0, x1) == [start |-> Position(x0, y0), end |-> Position(x1, y0)]

VerticalRoad(x0, y0, y1) == [start |-> Position(x0, y0), end |-> Position(x0, y1)]

IsHorizontal(road) == road.start.y = road.end.y

IsVertical(road) == road.start.x = road.end.x

GetMinX(road) == Min(road.start.x, road.end.x)

GetMaxX(road) == Max(road.start.x, road.end.x)

GetMinY(road) == Min(road.start.y, road.end.y)

GetMaxY(road) == Max(road.start.y, road.end.y)

GetBorders(road) ==
    [min |-> Position(GetMinX(road) - width_, GetMinY(road) - width_),
     max |-> Position(GetMaxX(road) + width_, GetMaxY(road) + width_)]

IsPositionInRoad(road, pos) ==
    LET borders == GetBorders(road)
        more_than_min == pos.x >= borders.min.x /\ pos.y >= borders.min.y
        less_than_max == pos.x <= borders.max.x /\ pos.y <= borders.max.y
    IN  more_than_min /\ less_than_max

-----------------------------------------------------------------------------
(* model.cpp: Map                                                          *)

\* A map is a record [roads, offices, dog_speed, bag_capacity, loot_types]:
\* roads and offices are sequences in configuration order, loot_types is the
\* sequence of the catalog's "value" fields.

\* Bounds taken from the axes of the roads, without their half width.
GetExactMovementBounds_OfAxes(map) ==
    IF map.roads = <<>>
    THEN [min |-> Position(0, 0), max |-> Position(0, 0)]
    ELSE LET R == Range(map.roads)
             min_x == CHOOSE v \in {GetMinX(r) : r \in R} : \A r \in R : v <= GetMinX(r)
             max_x == CHOOSE v \in {GetMaxX(r) : r \in R} : \A r \in R : v >= GetMaxX(r)
             min_y == CHOOSE v \in {GetMinY(r) : r \in R} : \A r \in R : v <= GetMinY(r)
             max_y == CHOOSE v \in {GetMaxY(r) : r \in R} : \A r \in R : v >= GetMaxY(r)
         IN  [min |-> Position(min_x, min_y), max |-> Position(max_x, max_y)]

GetExactMovementBounds(map) ==
    IF map.roads = <<>>
    THEN [min |-> Position(0, 0), max |-> Position(0, 0)]
    ELSE LET R == Range(map.roads)
             min_x == CHOOSE v \in {GetMinX(r) - width_ : r \in R} :
                          \A r \in R : v <= GetMinX(r) - width_
             max_x == CHOOSE v \in {GetMaxX(r) + width_ : r \in R} :
                          \A r \in R : v >= GetMaxX(r) + width_
             min_y == CHOOSE v \in {GetMinY(r) - width_ : r \in R} :
                          \A r \in R : v <= GetMinY(r) - width_
             max_y == CHOOSE v \in {GetMaxY(r) + width_ : r \in R} :
                          \A r \in R : v >= GetMaxY(r) + width_
         IN  [min |-> Position(min_x, min_y), max |-> Position(max_x, max_y)]

GetStartPosition(map) ==
    IF map.roads = <<>> THEN Position(0, 0) ELSE map.roads[1].start

\* The points GetRandomPosition can return, sampled: the two ends and the
\* middle of the interval [min + 0.4, max - 0.4] of every road (the interval
\* [start, end] when the road is shorter than 0.8).
RandomPositionsOnRoad(road) ==
    LET tolerance == 4
    IN  IF IsHorizontal(road)
        THEN LET lo0 == GetMinX(road) + tolerance
                 hi0 == GetMaxX(road) - tolerance
                 lo == IF lo0 >= hi0 THEN road.start.x ELSE lo0
                 hi == IF lo0 >= hi0 THEN road.end.x ELSE hi0
             IN  {Position(x, road.start.y) : x \in {lo, (lo + hi) \div 2, hi}}
        ELSE LET lo0 == GetMinY(road) + tolerance
                 hi0 == GetMaxY(road) - tolerance
                 lo == IF lo0 >= hi0 THEN road.start.y ELSE lo0
                 hi == IF lo0 >= hi0 THEN road.end.y ELSE hi0
             IN  {Position(road.start.x, y) : y \in {lo, (lo + hi) \div 2, hi}}

GetRandomPosition(map) ==
    IF map.roads = <<>>
    THEN {Position(0, 0)}
    ELSE UNION {RandomPositionsOnRoad(r) : r \in Range(map.roads)}

SqDist(p, q) == (p.x - q.x) * (p.x - q.x) + (p.y - q.y) * (p.y - q.y)

\* The projection MoveDog tries for one road the dog stands on: a sequence
\* holding the projected point, or empty when no branch applies.
ProjectOnRoad(road, final_position, speed) ==
    LET road_min_x == GetMinX(road) - width_
        road_max_x == GetMaxX(road) + width_
        road_min_y == GetMinY(road) - width_
        road_max_y == GetMaxY(road) + width_
    IN  IF IsHorizontal(road) /\ speed.vy # 0
        THEN LET road_y == IF speed.vy > 0 THEN road.start.y + width_
                                           ELSE road.start.y - width_
             IN  <<Position(Clamp(final_position.x, road_min_x, road_max_x), road_y)>>
        ELSE IF IsHorizontal(road) /\ speed.vx # 0
        THEN LET road_y == road.start.y + width_
             IN  <<Position(Clamp(final_position.x, road_min_x, road_max_x), road_y)>>
        ELSE IF IsVertical(road) /\ speed.vx # 0
        THEN LET road_x == IF speed.vx > 0 THEN road.start.x + width_
                                           ELSE road.start.x - width_
             IN  <<Position(road_x, Clamp(final_position.y, road_min_y, road_max_y))>>
        ELSE IF IsVertical(road) /\ speed.vy # 0
        THEN <<Position(final_position.x,
                        Clamp(final_position.y, road_min_y, road_max_y))>>
        ELSE <<>>

\* The loop over cur_roads: best_position and min_distance_sq after the
\* first n roads (min_distance_sq = -1 stands for numeric_limits::max()).
RECURSIVE BestProjection(_, _, _, _, _)
BestProjection(cur_roads, n, start, final_position, speed) ==
    IF n = 0
    THEN [best_position |-> start, min_distance_sq |-> -1]
    ELSE LET acc == BestProjection(cur_roads, n - 1, start, final_position, speed)
             road == cur_roads[n]
             proj == ProjectOnRoad(road, final_position, speed)
         IN  IF proj # <<>> /\ IsPositionInRoad(road, proj[1])
                /\ (acc.min_distance_sq = -1
                    \/ SqDist(final_position, proj[1]) < acc.min_distance_sq)
             THEN [best_position |-> proj[1],
                   min_distance_sq |-> SqDist(final_position, proj[1])]
             ELSE acc

\* A MoveDog that only keeps the dog inside the bounding box of the roads.
MoveDog_InsideBoxOnly(map, start, speed, delta_time) ==
    LET target == Position(start.x + speed.vx * delta_time,
                           start.y + speed.vy * delta_time)
        b == GetExactMovementBounds(map)
        final_position == Position(Clamp(target.x, b.min.x, b.max.x),
                                   Clamp(target.y, b.min.y, b.max.y))
    IN  MoveResult(final_position, final_position # target)

\* A MoveDog that clears hit_boundary when the clamped target is on a road.
MoveDog_AcceptedIsNoHit(map, start, speed, delta_time) ==
    IF map.roads = <<>>
    THEN MoveResult(start, FALSE)
    ELSE LET target == Position(start.x + speed.vx * delta_time,
                                start.y + speed.vy * delta_time)
             b == GetExactMovementBounds(map)
             final_position == Position(Clamp(target.x, b.min.x, b.max.x),
                                        Clamp(target.y, b.min.y, b.max.y))
             cur_roads == SelectSeq(map.roads, LAMBDA r : IsPositionInRoad(r, start))
         IN  IF \E r \in Range(map.roads) : IsPositionInRoad(r, final_position)
             THEN MoveResult(final_position, FALSE)
             ELSE LET best == BestProjection(cur_roads, Len(cur_roads), start,
                                             final_position, speed).best_position
                  IN  MoveResult(best, TRUE)

MoveDog(map, start, speed, delta_time) ==
    IF map.roads = <<>>
    THEN MoveResult(start, FALSE)
    ELSE LET target == Position(start.x + speed.vx * delta_time,
                                start.y + speed.vy * delta_time)
             b == GetExactMovementBounds(map)
             final_position == Position(Clamp(target.x, b.min.x, b.max.x),
                                        Clamp(target.y, b.min.y, b.max.y))
             hit_map == final_position # target
             cur_roads == SelectSeq(map.roads, LAMBDA r : IsPositionInRoad(r, start))
         IN  IF \E r \in Range(map.roads) : IsPositionInRoad(r, final_position)
             THEN MoveResult(final_position, hit_map)
             ELSE LET best == BestProjection(cur_roads, Len(cur_roads), start,
                                             final_position, speed).best_position
                      hit_road_boundary == best # final_position
                  IN  MoveResult(best, hit_map \/ hit_road_boundary)

OnSomeRoad(map, pos) == \E r \in Range(map.roads) : IsPositionInRoad(r, pos)

-----------------------------------------------------------------------------
(* collision_detector.cpp                                                  *)

\* A ratio num/den with den > 0.
Ratio(num, den) == [num |-> num, den |-> den]

RatioLess(a, b) == a.num * b.den < b.num * a.den

RatioLeq(a, b) == a.num * b.den <= b.num * a.den

Gatherer(start_pos, end_pos, width) ==
    [start_pos |-> start_pos, end_pos |-> end_pos, width |-> width]

Item(position, width) == [position |-> position, width |-> width]

\* CollectionResult(sq_distance, proj_ratio) for the sweep a -> b and the
\* point c; the displacement is non-zero (the assert of the code).
TryCollectPoint(a, b, c) ==
    LET u_x == c.x - a.x
        u_y == c.y - a.y
        v_x == b.x - a.x
        v_y == b.y - a.y
        u_dot_v == u_x * v_x + u_y * v_y
        u_len2 == u_x * u_x + u_y * u_y
        v_len2 == v_x * v_x + v_y * v_y
    IN  [proj_ratio |-> Ratio(u_dot_v, v_len2),
         sq_distance |-> Ratio(u_len2 * v_len2 - u_dot_v * u_dot_v, v_len2)]

\* The test of lines 44-45 for one gatherer and one item.
IsCollected(gatherer, item) ==
    LET result == TryCollectPoint(gatherer.start_pos, gatherer.end_pos, item.position)
    IN  /\ result.proj_ratio.num >= 0
        /\ result.proj_ratio.num <= result.proj_ratio.den
        /\ RatioLeq(result.sq_distance, Ratio(gatherer.width * gatherer.width, 1))

\* The inner loop (lines 36-53): the events of gatherer gatherer_idx for the
\* items 0 .. n-1, in item order.  Indices are the zero-based ones of the code.
RECURSIVE ItemLoop(_, _, _)
ItemLoop(provider, gatherer_idx, n) ==
    IF n = 0
    THEN <<>>
    ELSE LET item_idx == n - 1
             gatherer == provider.gatherers[gatherer_idx + 1]
             item == provider.items[item_idx + 1]
             result == TryCollectPoint(gatherer.start_pos, gatherer.end_pos,
                                       item.position)
             before == ItemLoop(provider, gatherer_idx, n - 1)
         IN  IF IsCollected(gatherer, item)
             THEN Append(before, [item_id |-> item_idx,
                                  gatherer_id |-> gatherer_idx,
                                  sq_distance |-> result.sq_distance,
                                  time |-> result.proj_ratio])
             ELSE before

\* The outer loop (lines 28-54): gatherers 0 .. n-1; a gatherer that does not
\* move is skipped.
RECURSIVE GathererLoop(_, _)
GathererLoop(provider, n) ==
    IF n = 0
    THEN <<>>
    ELSE LET gatherer_idx == n - 1
             gatherer == provider.gatherers[gatherer_idx + 1]
             before == GathererLoop(provider, n - 1)
         IN  IF gatherer.start_pos.x = gatherer.end_pos.x
                /\ gatherer.start_pos.y = gatherer.end_pos.y
             THEN before
             ELSE before \o ItemLoop(provider, gatherer_idx, Len(provider.items))

\* std::sort with the comparison e1.time < e2.time: the result is a
\* permutation of the input in which no element is followed by one of a
\* smaller time; the order of elements of equal time is not specified.
\* SortByTime yields every such permutation of the elements events[i], i in S.
RECURSIVE SortByTimeOf(_, _)
SortByTimeOf(events, S) ==
    IF S = {}
    THEN {<<>>}
    ELSE UNION { { <<events[i]>> \o rest : rest \in SortByTimeOf(events, S \ {i}) } :
                 i \in {k \in S : \A j \in S : ~RatioLess(events[j].time, events[k].time)} }

\* A sort that leaves the events in the order they were found.
SortByTime_AsFound(events) == {events}

SortByTime(events) == SortByTimeOf(events, DOMAIN events)

\* The set of event lists FindGatherEvents can return.
FindGatherEvents(provider) ==
    SortByTime(GathererLoop(provider, Len(provider.gatherers)))

-----------------------------------------------------------------------------
(* The configuration (json_loader.cpp, LoadGame and ParseMap): two maps,   *)
(* each a road of two units with an office in its middle; "m1" has one     *)
(* loot type, "m0" has an empty "lootTypes" array.                         *)

\* "dogSpeed" of the map: two units per second.
dog_speed_ == 20

\* "bagCapacity" of the map.
bag_capacity_ == 2

\* "dogRetirementTime", in seconds.
dog_retirement_time_ == 2

\* lootGeneratorConfig "period", in seconds.
base_interval_ == 2

\* Radius of a dog in LootProvider and OfficeProvider (0.6), radius of a
\* loot (0.0) and radius of an office (0.5).
DogWidth == 6

LootWidth == 0

OfficeWidth == 5

maps_ ==
    [id \in {"m1", "m0"} |->
        [roads |-> <<HorizontalRoad(0, 0, 20)>>,
         offices |-> <<[position |-> Position(10, 0)]>>,
         dog_speed |-> dog_speed_,
         bag_capacity |-> bag_capacity_,
         loot_types |-> IF id = "m1" THEN <<5>> ELSE <<>>]]

\* Game::FindMap: a sequence holding the map, empty for nullptr.
FindMap(id) == IF id \in DOMAIN maps_ THEN <<maps_[id]>> ELSE <<>>

-----------------------------------------------------------------------------
(* loot_generator: LootGenerator::Generate.  The accumulator               *)
(* time_without_loot is kept in seconds, probabilities and the random      *)
(* value in quarters.                                                      *)

\* 4 * (1 - (1 - base_probability)^ratio) for base_probability = 3/4 and
\* ratio = min(1, time_without_loot / base_interval): the power (1/4)^ratio
\* is 1, 1/2 and 1/4 for the ratios 0, 1/2 and 1 that whole seconds give.
ProbabilityQ4(time_without_loot) ==
    IF time_without_loot >= base_interval_ THEN 3
    ELSE IF 2 * time_without_loot = base_interval_ THEN 2
    ELSE 0

\* The values random() takes here, in quarters: 0, 0.5 and 1.0.
RandomValuesQ4 == {0, 2, 4}

\* The shortage as if no loot were in the world.
LootShortage_IgnoringLoots(loot_count, looter_count) == looter_count

LootShortage(loot_count, looter_count) ==
    IF loot_count > looter_count THEN 0 ELSE looter_count - loot_count

Generate(time_without_loot, time_delta, loot_count, looter_count, random_q4) ==
    LET T == time_without_loot + time_delta
        loot_shortage == LootShortage(loot_count, looter_count)
        n0 == (loot_shortage * ProbabilityQ4(T) * random_q4 + 8) \div 16
        generated == Min(n0, loot_shortage)
    IN  IF loot_shortage = 0
        THEN [generated |-> 0, time_without_loot |-> 0]
        ELSE [generated |-> generated,
              time_without_loot |-> IF generated > 0 THEN 0 ELSE T]

-----------------------------------------------------------------------------
(* model.h: Loot, Dog, Player                                              *)

Loot(id, type, position, value) ==
    [id |-> id, type |-> type, position |-> position, value |-> value]

\* Dog::Dog followed by SetPosition: a dog at rest facing north.
NewDog(name, map_id, position) ==
    [name |-> name, map_id |-> map_id, position |-> position,
     previous_position |-> Position(0, 0), speed |-> Speed(0, 0), direction |-> "NORTH"]

NewPlayer(id, dog, token, bag_capacity) ==
    [id |-> id, dog |-> dog, token |-> token, bag |-> <<>>,
     bag_capacity |-> bag_capacity, score |-> 0, play_time |-> 0, idle_time |-> 0]

\* A bag that never counts as full.
IsBagFull_Never(player) == FALSE

IsBagFull(player) == Len(player.bag) >= player.bag_capacity

AddToBag(player, loot) ==
    IF Len(player.bag) < player.bag_capacity
    THEN [player EXCEPT !.bag = Append(@, loot)]
    ELSE player

\* A ClearBag that leaves the bag as it is.
ClearBag_KeepingItems(player) == player

ClearBag(player) == [player EXCEPT !.bag = <<>>]

AddScore(player, delta) == [player EXCEPT !.score = @ + delta]

\* Dog::IsMoving
IsMoving(dog) == dog.speed.vx # 0 /\ dog.speed.vy # 0

\* A Stop that also turns the dog to the direction of a new dog.
Stop_FacingNorth(dog) == [dog EXCEPT !.speed = Speed(0, 0), !.direction = "NORTH"]

\* Dog::Stop
Stop(dog) == [dog EXCEPT !.speed = Speed(0, 0)]

RECURSIVE SumValues(_)
SumValues(bag) ==
    IF bag = <<>> THEN 0 ELSE bag[1].value + SumValues(Tail(bag))

RECURSIVE SumScores(_)
SumScores(players) ==
    IF players = <<>> THEN 0 ELSE players[1].score + SumScores(Tail(players))

RECURSIVE SumBags(_)
SumBags(players) ==
    IF players = <<>> THEN 0 ELSE SumValues(players[1].bag) + SumBags(Tail(players))

-----------------------------------------------------------------------------
(* model.cpp: GameSession                                                  *)

\* GameSession::GameSession followed by SetLootGenerator (GetOrCreateSession).
NewSession(map_id) ==
    [map_id |-> map_id, players |-> <<>>, loots |-> <<>>, next_loot_id |-> 0,
     time_without_loot |-> 0]

\* A Timekeeping that never resets the idle time.
Timekeeping_NeverReset(player, delta_time) ==
    [player EXCEPT !.play_time = @ + delta_time, !.idle_time = @ + delta_time]

\* UpdateState, lines 484-501: play time and idle time of one player.
Timekeeping(player, delta_time) ==
    LET is_idle == player.dog.speed.vx = 0 /\ player.dog.speed.vy = 0
    IN  [player EXCEPT !.play_time = @ + delta_time,
                       !.idle_time = IF is_idle THEN @ + delta_time ELSE 0]

\* UpdateState, lines 515-516: the loot types the distribution over
\* [0, loot_types_count - 1] can give; for an empty catalog the upper end
\* wraps to the largest size_t, and 0 and 1 stand for the whole range.
LootTypeChoices(map) ==
    IF Len(map.loot_types) = 0 THEN {0, 1} ELSE 0 .. (Len(map.loot_types) - 1)

\* UpdateState, lines 522-529.
LootValue(map, type) ==
    IF type < Len(map.loot_types) THEN map.loot_types[type + 1] ELSE 0

\* UpdateState, lines 538-557: previous position, move and stop of one player.
MovePlayer(map, player, delta_time) ==
    LET dog == [player.dog EXCEPT !.previous_position = player.dog.position]
    IN  IF IsMoving(dog) \/ dog.speed.vx # 0 \/ dog.speed.vy # 0
        THEN LET move_result == MoveDog(map, dog.position, dog.speed, delta_time)
                 moved == [dog EXCEPT !.position = move_result.position]
             IN  [player EXCEPT !.dog = IF move_result.hit_boundary
                                        THEN Stop(moved) ELSE moved]
        ELSE [player EXCEPT !.dog = dog]

\* HandleCollisions, LootProvider and OfficeProvider.
DogGatherers(players) ==
    [i \in DOMAIN players |->
        Gatherer(players[i].dog.previous_position, players[i].dog.position, DogWidth)]

LootProvider(loots, players) ==
    [items |-> [i \in DOMAIN loots |-> Item(loots[i].position, LootWidth)],
     gatherers |-> DogGatherers(players)]

OfficeProvider(offices, players) ==
    [items |-> [i \in DOMAIN offices |-> Item(offices[i].position, OfficeWidth)],
     gatherers |-> DogGatherers(players)]

GameEvents(events, type) ==
    [k \in DOMAIN events |->
        [time |-> events[k].time, type |-> type,
         gatherer_id |-> events[k].gatherer_id, item_id |-> events[k].item_id]]

\* HandleCollisions, lines 669-691: the orders in which the events of a tick
\* can be processed.  The two lists FindGatherEvents returns are sorted
\* again after they are joined, so every order of the joined list that is
\* ascending in time can come out, whatever order the two lists had.
\* The events of a tick with all pickups ahead of all deliveries.
AllEvents_PickupsFirst(map, players, loots) ==
    LET loot_provider == LootProvider(loots, players)
        office_provider == OfficeProvider(map.offices, players)
    IN  { GameEvents(loot_events, "LOOT") \o GameEvents(office_events, "OFFICE") :
            loot_events \in FindGatherEvents(loot_provider),
            office_events \in FindGatherEvents(office_provider) }

AllEvents(map, players, loots) ==
    LET loot_provider == LootProvider(loots, players)
        office_provider == OfficeProvider(map.offices, players)
        loot_events == GathererLoop(loot_provider, Len(loot_provider.gatherers))
        office_events == GathererLoop(office_provider, Len(office_provider.gatherers))
    IN  SortByTime(GameEvents(loot_events, "LOOT") \o GameEvents(office_events, "OFFICE"))

\* A pickup that never looks at the capacity of the bag.
ApplyLootEvent_AnyBagSize(st, loots, event) ==
    LET player == st.players[event.gatherer_id + 1]
        loot == loots[event.item_id + 1]
    IN  IF loot.id \in st.collected_loots
        THEN st
        ELSE [players |-> [st.players EXCEPT ![event.gatherer_id + 1].bag = Append(@, loot)],
              collected_loots |-> st.collected_loots \cup {loot.id}]

\* A pickup that never looks at collected_loots.
ApplyLootEvent_Again(st, loots, event) ==
    LET player == st.players[event.gatherer_id + 1]
        loot == loots[event.item_id + 1]
    IN  IF ~IsBagFull(player)
        THEN [players |-> [st.players EXCEPT ![event.gatherer_id + 1] =
                               AddToBag(player, loot)],
              collected_loots |-> st.collected_loots \cup {loot.id}]
        ELSE st

\* HandleCollisions, lines 700-725: a pickup event.
ApplyLootEvent(st, loots, event) ==
    IF event.gatherer_id >= Len(st.players) \/ event.item_id >= Len(loots)
    THEN st
    ELSE LET player == st.players[event.gatherer_id + 1]
             loot == loots[event.item_id + 1]
         IN  IF loot.id \in st.collected_loots
             THEN st
             ELSE IF ~IsBagFull(player)
             THEN [players |-> [st.players EXCEPT ![event.gatherer_id + 1] =
                                    AddToBag(player, loot)],
                   collected_loots |-> st.collected_loots \cup {loot.id}]
             ELSE st

\* HandleCollisions, lines 726-740: a delivery event.
ApplyOfficeEvent(st, event) ==
    LET player == st.players[event.gatherer_id + 1]
        total_score == SumValues(player.bag)
    IN  [st EXCEPT !.players[event.gatherer_id + 1] =
                       ClearBag(AddScore(player, total_score))]

\* HandleCollisions, lines 697-741: the first n events of all_events.
RECURSIVE ProcessEvents(_, _, _, _)
ProcessEvents(players, loots, all_events, n) ==
    IF n = 0
    THEN [players |-> players, collected_loots |-> {}]
    ELSE LET st == ProcessEvents(players, loots, all_events, n - 1)
             event == all_events[n]
         IN  IF event.type = "LOOT"
             THEN ApplyLootEvent(st, loots, event)
             ELSE ApplyOfficeEvent(st, event)

\* HandleCollisions for one order of the events: the players and the loots
\* left in the world.
HandleCollisions(players, loots, all_events) ==
    LET st == ProcessEvents(players, loots, all_events, Len(all_events))
    IN  [players |-> st.players,
         loots |-> SelectSeq(loots, LAMBDA l : l.id \notin st.collected_loots)]

\* A RetireInactivePlayers that waits until the idle time has passed the
\* retirement time.
RetireInactivePlayers_Later(players) ==
    [active_players |-> SelectSeq(players, LAMBDA p : ~(p.idle_time > dog_retirement_time_)),
     retired |-> SelectSeq(players, LAMBDA p : p.idle_time > dog_retirement_time_)]

\* RetireInactivePlayers: the players kept and the players handed to
\* Game::OnPlayerRetired, both in session order.
RetireInactivePlayers(players) ==
    [active_players |-> SelectSeq(players, LAMBDA p : ~(p.idle_time >= dog_retirement_time_)),
     retired |-> SelectSeq(players, LAMBDA p : p.idle_time >= dog_retirement_time_)]

\* A counter of loot ids that spawning leaves where it was.
NextLootIdAfter_Unchanged(next_loot_id, generated) == next_loot_id

\* UpdateState, line 532: next_loot_id_ after next_loot_id_++ was evaluated
\* once for each loot generated.
NextLootIdAfter(next_loot_id, generated) == next_loot_id + generated

\* GameSession::UpdateState: the set of outcomes of one tick of a session.
\* An outcome holds the session after the tick and, for the record of the
\* tick, the counts handed to Generate, the loots spawned, the sums of the
\* scores, bag values and loot values before and the players retired.
SessionUpdateState(session, delta_time) ==
    LET map == maps_[session.map_id]
        timed == [i \in DOMAIN session.players |->
                     Timekeeping(session.players[i], delta_time)]
        moved == [i \in DOMAIN timed |-> MovePlayer(map, timed[i], delta_time)]
    IN  UNION { LET gen == Generate(session.time_without_loot, delta_time,
                                    Len(session.loots), Len(session.players), random_q4)
                IN  UNION { LET spawned == [i \in 1..gen.generated |->
                                    Loot(session.next_loot_id + i - 1, choice[i][1],
                                         choice[i][2], LootValue(map, choice[i][1]))]
                                loots == session.loots \o spawned
                            IN  { LET after == HandleCollisions(moved, loots, all_events)
                                      retire == RetireInactivePlayers(after.players)
                                  IN  [session |->
                                          [session EXCEPT
                                              !.players = retire.active_players,
                                              !.loots = after.loots,
                                              !.next_loot_id =
                                                  NextLootIdAfter(@, gen.generated),
                                              !.time_without_loot = gen.time_without_loot],
                                       loot_count |-> Len(session.loots),
                                       looter_count |-> Len(session.players),
                                       spawned |-> spawned,
                                       score_before |-> SumScores(session.players),
                                       bag_value_before |-> SumBags(session.players),
                                       loot_value_before |-> SumValues(session.loots),
                                       retired |-> retire.retired] :
                                  all_events \in AllEvents(map, moved, loots) } :
                            choice \in [1..gen.generated ->
                                          LootTypeChoices(map) \X GetRandomPosition(map)] } :
                random_q4 \in RandomValuesQ4 }

\* Game::UpdateState: the outcomes of ticking the first n sessions in order.
RECURSIVE GameUpdateState(_, _, _)
GameUpdateState(all_sessions, n, delta_time) ==
    IF n = 0
    THEN {<<>>}
    ELSE { Append(before, outcome) :
             before \in GameUpdateState(all_sessions, n - 1, delta_time),
             outcome \in SessionUpdateState(all_sessions[n], delta_time) }

\* GameSession::FindPlayerByToken and Game::FindPlayerByToken: the indices
\* <<session, player>> of the first player holding the token, or <<>>.
FindPlayerByToken(all_sessions, token) ==
    LET hits == { <<i, j>> \in UNION { {i} \X DOMAIN all_sessions[i].players :
                                       i \in DOMAIN all_sessions } :
                    all_sessions[i].players[j].token = token }
    IN  IF hits = {} THEN <<>>
        ELSE CHOOSE h \in hits :
                \A g \in hits : h[1] < g[1] \/ (h[1] = g[1] /\ h[2] <= g[2])

\* Game::FindSessionByMapId: the index of the session of the map, or 0.
FindSessionByMapId(all_sessions, map_id) ==
    IF \E i \in DOMAIN all_sessions : all_sessions[i].map_id = map_id
    THEN CHOOSE i \in DOMAIN all_sessions :
            /\ all_sessions[i].map_id = map_id
            /\ \A j \in 1..(i - 1) : all_sessions[j].map_id # map_id
    ELSE 0

\* Game::GetOrCreateSession for a map FindMap knows: the sessions afterwards.
GetOrCreateSession(all_sessions, map_id) ==
    IF FindSessionByMapId(all_sessions, map_id) # 0
    THEN all_sessions
    ELSE Append(all_sessions, NewSession(map_id))

-----------------------------------------------------------------------------
(* One call of FindGatherEvents on a provider drawn from bounded sets      *)
(* (SpecGather).                                                           *)

MaxGatherers == 2

MaxItems == 3

\* Sweeps: along x with width 1.0, the same with the width of a dog (0.6),
\* its reverse with width 0.5, and a gatherer that does not move.
GatherGatherers ==
    { Gatherer(Position(0, 0), Position(20, 0), 10),
      Gatherer(Position(0, 0), Position(20, 0), 6),
      Gatherer(Position(20, 0), Position(0, 0), 5),
      Gatherer(Position(0, 0), Position(0, 0), 10) }

\* Items: three that share the time 0.5 at distances 1.0, 1.0 and 0, one on
\* the start point, one at distance 1.1 with the radius of an office, and
\* one beyond the end of the sweep.
GatherItems ==
    { Item(Position(10, 10), 5),
      Item(Position(10, -10), 5),
      Item(Position(10, 0), 0),
      Item(Position(0, 0), 0),
      Item(Position(15, 11), 5),
      Item(Position(30, 0), 5) }

SeqsUpTo(S, n) == UNION {[1..k -> S] : k \in 0..n}

GatherInit ==
    \E gatherers \in SeqsUpTo(GatherGatherers, MaxGatherers),
       items \in SeqsUpTo(GatherItems, MaxItems) :
        gather = [provider |-> [gatherers |-> gatherers, items |-> items],
                  events |-> <<>>, done |-> FALSE]

GatherFind ==
    /\ ~gather.done
    /\ \E events \in FindGatherEvents(gather.provider) :
         gather' = [gather EXCEPT !.events = events, !.done = TRUE]

GatherIdle == [provider |-> [gatherers |-> <<>>, items |-> <<>>],
               events |-> <<>>, done |-> FALSE]

-----------------------------------------------------------------------------
(* The walk of one dog (SpecMove): HandleJoinGame places the dog, then     *)
(* MoveDog is applied to it with any speed and any delta_time.             *)

\* Two roads meeting in a corner, the corner of scenario S4 (roads
\* (0,0)-(10,0) and (10,0)-(10,10)), a crossing, a single road given from
\* its far end, two parallel roads joined by a third, and a short road
\* below a long one, joined at their left ends.
\* Each map comes with the speed its dogs are moved with, on either axis
\* or on both.
WalkMaps ==
    { [roads |-> <<HorizontalRoad(0, 0, 20), VerticalRoad(20, 0, 20)>>, dog_speed |-> 10],
      [roads |-> <<HorizontalRoad(0, 0, 100), VerticalRoad(100, 0, 100)>>, dog_speed |-> 50],
      [roads |-> <<HorizontalRoad(0, 10, 20), VerticalRoad(10, 0, 20)>>, dog_speed |-> 10],
      [roads |-> <<HorizontalRoad(20, 0, 0)>>, dog_speed |-> 10],
      [roads |-> <<VerticalRoad(0, 0, 20), HorizontalRoad(0, 20, 20),
                   VerticalRoad(20, 20, 10)>>, dog_speed |-> 10],
      [roads |-> <<HorizontalRoad(0, 0, 10), VerticalRoad(0, 0, 10),
                   HorizontalRoad(0, 10, 20)>>, dog_speed |-> 10] }

WalkSpeeds(map) ==
    {Speed(vx, vy) : vx \in {-map.dog_speed, 0, map.dog_speed},
                     vy \in {-map.dog_speed, 0, map.dog_speed}}

\* The directions the dog may face when the tick moves it.
WalkDirections == {"NORTH", "EAST"}

WalkDeltas == {0, 1, 2}

\* HandleJoinGame, lines 579-587: the spawn point of a new dog.
JoinPositions(map, randomize_spawn_points) ==
    IF randomize_spawn_points THEN GetRandomPosition(map) ELSE {GetStartPosition(map)}

WalkInit ==
    \E map \in WalkMaps, randomize \in BOOLEAN :
      \E pos \in JoinPositions(map, randomize) :
        walk = [map |-> map, pos |-> pos, start |-> pos, speed |-> Speed(0, 0),
                delta_time |-> 0, hit_boundary |-> FALSE, moved |-> FALSE,
                dog |-> NewDog("dog", "walk", pos),
                moved_dog |-> NewDog("dog", "walk", pos)]

\* MoveDog from where the dog stands, and the move step of the tick
\* (MovePlayer) on a dog that stands there with that speed: walk.dog is the
\* dog before the step, walk.moved_dog the dog after it.
WalkMove ==
    \E speed \in WalkSpeeds(walk.map), delta_time \in WalkDeltas, direction \in WalkDirections :
      LET move_result == MoveDog(walk.map, walk.pos, speed, delta_time)
          dog == [NewDog("dog", "walk", walk.pos) EXCEPT
                     !.speed = speed, !.direction = direction]
          player == MovePlayer(walk.map, NewPlayer(0, dog, "t1", bag_capacity_),
                               delta_time)
      IN  walk' = [walk EXCEPT !.pos = move_result.position,
                               !.start = walk.pos,
                               !.speed = speed,
                               !.delta_time = delta_time,
                               !.hit_boundary = move_result.hit_boundary,
                               !.moved = TRUE,
                               !.dog = dog,
                               !.moved_dog = player.dog]

WalkIdle == [map |-> [roads |-> <<>>, dog_speed |-> 0], pos |-> Position(0, 0), start |-> Position(0, 0),
             speed |-> Speed(0, 0), delta_time |-> 0, hit_boundary |-> FALSE,
             moved |-> FALSE, dog |-> NewDog("dog", "walk", Position(0, 0)),
             moved_dog |-> NewDog("dog", "walk", Position(0, 0))]

-----------------------------------------------------------------------------
(* state_serializer: reading a snapshot.  A snapshot is the JSON document  *)
(* Serialize writes: sessions with their players and loots.                *)

\* A DeserializeDirection that knows no direction.
DeserializeDirection_Unknown(dir_str) == "NORTH"

DeserializeDirection(dir_str) ==
    IF dir_str = "north" THEN "NORTH"
    ELSE IF dir_str = "south" THEN "SOUTH"
    ELSE IF dir_str = "west" THEN "WEST"
    ELSE IF dir_str = "east" THEN "EAST"
    ELSE "NORTH"

DeserializeLoot(json_val) ==
    Loot(json_val.id, json_val.type, json_val.position, json_val.value)

DeserializeDog(json_val) ==
    [NewDog(json_val.name, json_val.map_id, json_val.position) EXCEPT
        !.speed = json_val.speed,
        !.direction = DeserializeDirection(json_val.direction)]

RECURSIVE FillBag(_, _, _)
FillBag(player, bag_array, n) ==
    IF n = 0 THEN player
    ELSE AddToBag(FillBag(player, bag_array, n - 1), DeserializeLoot(bag_array[n]))

DeserializePlayer(json_val) ==
    LET player == NewPlayer(json_val.id, DeserializeDog(json_val.dog), json_val.token,
                            json_val.bag_capacity)
    IN  FillBag(AddScore(player, json_val.score), json_val.bag, Len(json_val.bag))

\* DeserializeSession; a session of an unknown map throws and is skipped by
\* DeserializeGame.
DeserializeSession(all_sessions, json_val) ==
    IF FindMap(json_val.map_id) = <<>>
    THEN all_sessions
    ELSE LET created == GetOrCreateSession(all_sessions, json_val.map_id)
             k == FindSessionByMapId(created, json_val.map_id)
         IN  [created EXCEPT
                 ![k].next_loot_id = json_val.next_loot_id,
                 ![k].players = @ \o [i \in DOMAIN json_val.players |->
                                          DeserializePlayer(json_val.players[i])],
                 ![k].loots = @ \o [i \in DOMAIN json_val.loots |->
                                        DeserializeLoot(json_val.loots[i])]]

RECURSIVE DeserializeGame(_, _, _)
DeserializeGame(all_sessions, sessions_array, n) ==
    IF n = 0 THEN all_sessions
    ELSE DeserializeSession(DeserializeGame(all_sessions, sessions_array, n - 1),
                            sessions_array[n])

-----------------------------------------------------------------------------
(* The server: main, the game loop thread and the API handlers             *)

\* Bounds of the exploration: players in a session, joins served by one
\* process, seconds of game time, player actions served.
MaxPlayers == 2

MaxJoins == 2

MaxTime == 2

MaxActions == 2

\* TokenGenerator::GenerateToken.  A 64-bit number is the sequence of its
\* hexadecimal digits, most significant first and without leading zeros,
\* as std::hex prints it; a token is a sequence of hexadecimal digits.
RandomNumbers ==
    { <<0>>, <<1, 15>>, <<10, 0, 0, 0, 0, 0, 0, 0, 0, 0, 0, 0, 0, 0, 0, 7>>,
      [i \in 1..16 |-> 15] }

\* std::setfill('0') << std::setw(n): zeros in front up to n digits.
SetW(digits, n) ==
    IF Len(digits) >= n THEN digits ELSE [i \in 1..(n - Len(digits)) |-> 0] \o digits

GenerateToken(part1, part2) ==
    LET token_str == SetW(part1, 16) \o SetW(part2, 16)
    IN  IF Len(token_str) > 32 THEN SubSeq(token_str, 1, 32)
        ELSE IF Len(token_str) < 32 THEN SetW(token_str, 32)
        ELSE token_str

\* The tokens a few draws of the token generator can give, the user names
\* and map ids of the join requests, the "move" values of the action
\* requests and the "timeDelta" values of the tick requests, in seconds
\* (-1 stands for the negative values the handler rejects).
TokenSpace == {"t1", "t2"}

UserNames == {"bob"}

JoinMapIds == {"m1", "nomap"}

Moves == {"L", "R", "U", "D", "", "X"}

TimeDeltas == {-1, 1}

\* The elapsed time the game loop measures between two ticks, in seconds.
LoopDeltas == {1}

\* A snapshot an earlier run saved: ann stands on the road with one loot in
\* her bag and a score of 5; a second loot was spawned where she stands.
SavedState ==
    [sessions |-> <<
        [map_id |-> "m1", next_loot_id |-> 2,
         players |-> <<
            [id |-> 0, token |-> "t1", score |-> 5, bag_capacity |-> bag_capacity_,
             dog |-> [name |-> "ann", map_id |-> "m1", position |-> Position(16, 0),
                      speed |-> Speed(0, 0), direction |-> "west"],
             bag |-> <<[id |-> 0, type |-> 0, value |-> 5, position |-> Position(4, 0)]>>]>>,
         loots |-> <<[id |-> 1, type |-> 0, value |-> 5, position |-> Position(16, 0)]>>]>>]

\* The command lines explored: manual ticks on a fresh game, and a
\* timer-driven game restored from the state file.
CommandLines ==
    {[tick_period |-> 0, state_file |-> <<>>, randomize_spawn_points |-> FALSE],
     [tick_period |-> 1, state_file |-> <<SavedState>>, randomize_spawn_points |-> FALSE]}

NoOutcome == <<>>

NoRequest == <<>>

GameInit ==
    /\ args \in CommandLines
    /\ host = "LoadState"
    /\ sessions_ = <<>>
    /\ retired_player_callback_ = FALSE
    /\ game_loop_running_ = FALSE
    /\ update_period_ = 0
    /\ next_player_id_ = 0
    /\ records = <<>>
    /\ clock = 0
    /\ action_count = 0
    /\ last = [op |-> "start", ticks |-> NoOutcome, request |-> NoRequest]

\* main, lines 55-64: SerializingListener::LoadState.
MainLoadState ==
    /\ host = "LoadState"
    /\ host' = "StartGameLoop"
    /\ sessions_' = IF args.state_file = <<>> THEN sessions_
                    ELSE DeserializeGame(sessions_, args.state_file[1].sessions,
                                         Len(args.state_file[1].sessions))
    /\ last' = [op |-> "load", ticks |-> NoOutcome, request |-> NoRequest]
    /\ UNCHANGED <<args, retired_player_callback_, game_loop_running_, update_period_,
                   next_player_id_, records, clock, action_count>>
    /\ UNCHANGED <<walk, gather, collide, conc, save, trip>>

\* main, lines 66-74: SetTickPeriod and StartGameLoop.
MainStartGameLoop ==
    /\ host = "StartGameLoop"
    /\ host' = "SetRetiredPlayerCallback"
    /\ update_period_' = IF args.tick_period > 0 THEN args.tick_period ELSE update_period_
    /\ game_loop_running_' = (args.tick_period > 0)
    /\ last' = [op |-> "start_loop", ticks |-> NoOutcome, request |-> NoRequest]
    /\ UNCHANGED <<args, sessions_, retired_player_callback_, next_player_id_, records, clock, action_count>>
    /\ UNCHANGED <<walk, gather, collide, conc, save, trip>>

\* main, lines 76-97: Game::SetRetiredPlayerCallback.
MainSetRetiredPlayerCallback ==
    /\ host = "SetRetiredPlayerCallback"
    /\ host' = "ServeHttp"
    /\ retired_player_callback_' = TRUE
    /\ last' = [op |-> "set_callback", ticks |-> NoOutcome, request |-> NoRequest]
    /\ UNCHANGED <<args, sessions_, game_loop_running_, update_period_, next_player_id_,
                   records, clock, action_count>>
    /\ UNCHANGED <<walk, gather, collide, conc, save, trip>>

\* main, lines 114-141: the handler is built and the workers serve requests.
MainServeHttp ==
    /\ host = "ServeHttp"
    /\ host' = "RunWorkers"
    /\ last' = [op |-> "serve", ticks |-> NoOutcome, request |-> NoRequest]
    /\ UNCHANGED <<args, sessions_, retired_player_callback_, game_loop_running_,
                   update_period_, next_player_id_, records, clock, action_count>>
    /\ UNCHANGED <<walk, gather, collide, conc, save, trip>>

\* Game::OnPlayerRetired with the callback main installs: one row per player.
OnPlayerRetired(rows, player) ==
    IF retired_player_callback_
    THEN Append(rows, [name |-> player.dog.name, score |-> player.score,
                       play_time |-> player.play_time])
    ELSE rows

RECURSIVE RetireAll(_, _, _)
RetireAll(rows, outcomes, n) ==
    IF n = 0 THEN rows
    ELSE LET before == RetireAll(rows, outcomes, n - 1)
             retired == outcomes[n].retired
             F[k \in 0..Len(retired)] ==
                 IF k = 0 THEN before ELSE OnPlayerRetired(F[k - 1], retired[k])
         IN  F[Len(retired)]

\* Game::UpdateState on the state of the game.
UpdateState(delta_time) ==
    \E outcomes \in GameUpdateState(sessions_, Len(sessions_), delta_time) :
        /\ sessions_' = [i \in DOMAIN outcomes |-> outcomes[i].session]
        /\ records' = RetireAll(records, outcomes, Len(outcomes))
        /\ clock' = clock + delta_time
        /\ last' = [op |-> "tick",
                    ticks |-> [i \in DOMAIN outcomes |->
                                  [loot_count |-> outcomes[i].loot_count,
                                   looter_count |-> outcomes[i].looter_count,
                                   spawned |-> outcomes[i].spawned,
                                   score_before |-> outcomes[i].score_before,
                                   bag_value_before |-> outcomes[i].bag_value_before,
                                   loot_value_before |-> outcomes[i].loot_value_before,
                                   retired |-> outcomes[i].retired]],
                    request |-> NoRequest]

\* Game::GameLoop: one iteration of the loop thread.
GameLoop ==
    /\ game_loop_running_
    /\ \E delta_time \in LoopDeltas :
          /\ clock + delta_time <= MaxTime
          /\ UpdateState(delta_time)
    /\ UNCHANGED <<args, host, retired_player_callback_, game_loop_running_,
                   update_period_, next_player_id_, action_count>>
    /\ UNCHANGED <<walk, gather, collide, conc, save, trip>>

\* A HandleGameTick that sets the tick period before it looks at the sign of
\* timeDelta.
HandleGameTick_PeriodFirst ==
    /\ host = "RunWorkers"
    /\ \E time_delta \in TimeDeltas :
          /\ update_period_' = time_delta * 1000
          /\ IF time_delta < 0
             THEN /\ last' = [op |-> "invalid_tick", ticks |-> NoOutcome, request |-> NoRequest]
                  /\ UNCHANGED <<sessions_, records, clock>>
             ELSE /\ clock + time_delta <= MaxTime
                  /\ UpdateState(time_delta)
    /\ UNCHANGED <<args, host, retired_player_callback_, game_loop_running_, next_player_id_,
                   action_count>>
    /\ UNCHANGED <<walk, gather, collide, conc, save, trip>>

\* RequestHandler::HandleGameTick.
HandleGameTick ==
    /\ host = "RunWorkers"
    /\ \E time_delta \in TimeDeltas :
          IF time_delta < 0
          THEN /\ last' = [op |-> "invalid_tick", ticks |-> NoOutcome, request |-> NoRequest]
               /\ UNCHANGED <<sessions_, records, clock, update_period_>>
          ELSE /\ clock + time_delta <= MaxTime
               /\ update_period_' = time_delta * 1000
               /\ UpdateState(time_delta)
    /\ UNCHANGED <<args, host, retired_player_callback_, game_loop_running_, next_player_id_,
                   action_count>>
    /\ UNCHANGED <<walk, gather, collide, conc, save, trip>>

\* A HandleJoinGame that takes the player id before it looks for the map.
HandleJoinGame_IdFirst ==
    /\ host = "RunWorkers"
    /\ next_player_id_ < MaxJoins
    /\ next_player_id_' = next_player_id_ + 1
    /\ \E user_name \in UserNames, map_id \in JoinMapIds :
          IF FindMap(map_id) = <<>>
          THEN /\ last' = [op |-> "not_found", ticks |-> NoOutcome, request |-> NoRequest]
               /\ UNCHANGED sessions_
          ELSE LET map == FindMap(map_id)[1]
                   created == GetOrCreateSession(sessions_, map_id)
                   k == FindSessionByMapId(created, map_id)
               IN  /\ Len(created[k].players) < MaxPlayers
                   /\ \E start_position \in JoinPositions(map, args.randomize_spawn_points),
                         token \in TokenSpace :
                         sessions_' = [created EXCEPT ![k].players =
                             Append(@, NewPlayer(next_player_id_,
                                                 NewDog(user_name, map_id, start_position),
                                                 token, map.bag_capacity))]
                   /\ last' = [op |-> "join", ticks |-> NoOutcome, request |-> NoRequest]
    /\ UNCHANGED <<args, host, retired_player_callback_, game_loop_running_,
                   update_period_, records, clock, action_count>>
    /\ UNCHANGED <<walk, gather, collide, conc, save, trip>>

\* RequestHandler::HandleJoinGame.
HandleJoinGame ==
    /\ host = "RunWorkers"
    /\ \E user_name \in UserNames, map_id \in JoinMapIds :
          IF FindMap(map_id) = <<>>
          THEN /\ last' = [op |-> "not_found", ticks |-> NoOutcome, request |-> NoRequest]
               /\ UNCHANGED <<sessions_, next_player_id_>>
          ELSE LET map == FindMap(map_id)[1]
                   created == GetOrCreateSession(sessions_, map_id)
                   k == FindSessionByMapId(created, map_id)
               IN  /\ next_player_id_ < MaxJoins
                   /\ Len(created[k].players) < MaxPlayers
                   /\ \E start_position \in JoinPositions(map, args.randomize_spawn_points),
                         token \in TokenSpace :
                         sessions_' = [created EXCEPT ![k].players =
                             Append(@, NewPlayer(next_player_id_,
                                                 NewDog(user_name, map_id, start_position),
                                                 token, map.bag_capacity))]
                   /\ next_player_id_' = next_player_id_ + 1
                   /\ last' = [op |-> "join", ticks |-> NoOutcome, request |-> NoRequest]
    /\ UNCHANGED <<args, host, retired_player_callback_, game_loop_running_,
                   update_period_, records, clock, action_count>>
    /\ UNCHANGED <<walk, gather, collide, conc, save, trip>>

\* An ApplyMove that sends the dog down for "U".
ApplyMove_UpIsDown(dog, move_str, speed) ==
    IF move_str = "L" THEN [dog EXCEPT !.direction = "WEST", !.speed = Speed(-speed, 0)]
    ELSE IF move_str = "R" THEN [dog EXCEPT !.direction = "EAST", !.speed = Speed(speed, 0)]
    ELSE IF move_str = "U" THEN [dog EXCEPT !.direction = "NORTH", !.speed = Speed(0, speed)]
    ELSE IF move_str = "D" THEN [dog EXCEPT !.direction = "SOUTH", !.speed = Speed(0, speed)]
    ELSE [dog EXCEPT !.speed = Speed(0, 0)]

\* HandlePlayerAction, lines 406-431: the dog after a "move" value the
\* handler accepts.
ApplyMove(dog, move_str, speed) ==
    IF move_str = "L" THEN [dog EXCEPT !.direction = "WEST", !.speed = Speed(-speed, 0)]
    ELSE IF move_str = "R" THEN [dog EXCEPT !.direction = "EAST", !.speed = Speed(speed, 0)]
    ELSE IF move_str = "U" THEN [dog EXCEPT !.direction = "NORTH", !.speed = Speed(0, -speed)]
    ELSE IF move_str = "D" THEN [dog EXCEPT !.direction = "SOUTH", !.speed = Speed(0, speed)]
    ELSE [dog EXCEPT !.speed = Speed(0, 0)]

\* RequestHandler::HandlePlayerAction.
HandlePlayerAction ==
    /\ host = "RunWorkers"
    /\ \E token \in TokenSpace, move_str \in Moves :
          LET found == FindPlayerByToken(sessions_, token)
          IN  IF found = <<>>
              THEN /\ last' = [op |-> "unauthorized", ticks |-> NoOutcome,
                               request |-> NoRequest]
                   /\ UNCHANGED <<sessions_, action_count>>
              ELSE IF move_str \notin {"L", "R", "U", "D", ""}
              THEN /\ last' = [op |-> "invalid_action", ticks |-> NoOutcome,
                               request |-> NoRequest]
                   /\ UNCHANGED <<sessions_, action_count>>
              ELSE LET dog == sessions_[found[1]].players[found[2]].dog
                       map == FindMap(dog.map_id)[1]
                   IN  /\ action_count < MaxActions
                       /\ action_count' = action_count + 1
                       /\ sessions_' = [sessions_ EXCEPT
                               ![found[1]].players[found[2]].dog =
                                   ApplyMove(dog, move_str, map.dog_speed)]
                       /\ last' = [op |-> "action", ticks |-> NoOutcome,
                                   request |-> [token |-> token, move |-> move_str]]
    /\ UNCHANGED <<args, host, retired_player_callback_, game_loop_running_,
                   update_period_, next_player_id_, records, clock>>
    /\ UNCHANGED <<walk, gather, collide, conc, save, trip>>

\* The maxItems parameter of the records requests: absent (the default of
\* 100), 0, 1 and 101.
MaxItemsValues == {<<>>, <<0>>, <<1>>, <<101>>}

\* RequestHandler::HandleGetRecords: the rows are read from the repository
\* and nothing of the game is touched.
HandleGetRecords ==
    /\ host = "RunWorkers"
    /\ \E max_items \in MaxItemsValues :
          IF max_items # <<>> /\ (max_items[1] <= 0 \/ max_items[1] > 100)
          THEN last' = [op |-> "invalid_records", ticks |-> NoOutcome, request |-> NoRequest]
          ELSE last' = [op |-> "records", ticks |-> NoOutcome, request |-> NoRequest]
    /\ UNCHANGED <<args, host, sessions_, retired_player_callback_, game_loop_running_,
                   update_period_, next_player_id_, records, clock, action_count>>
    /\ UNCHANGED <<walk, gather, collide, conc, save, trip>>

GameIdle ==
    /\ args = [tick_period |-> 0, state_file |-> <<>>, randomize_spawn_points |-> FALSE]
    /\ host = "idle"
    /\ sessions_ = <<>>
    /\ retired_player_callback_ = FALSE
    /\ game_loop_running_ = FALSE
    /\ update_period_ = 0
    /\ next_player_id_ = 0
    /\ records = <<>>
    /\ clock = 0
    /\ action_count = 0
    /\ last = [op |-> "idle", ticks |-> NoOutcome, request |-> NoRequest]

-----------------------------------------------------------------------------
(* One call of HandleCollisions (SpecCollide) on a session drawn from      *)
(* bounded sets: the players have moved, the loots lie in the world.       *)

MaxCollidePlayers == 2

MaxCollideLoots == 2

\* The road of scenario S3, (0,0)-(10,0), with the office at its end or in
\* its middle.
CollideMaps ==
    { [roads |-> <<HorizontalRoad(0, 0, 100)>>,
       offices |-> <<[position |-> Position(x, 0)]>>,
       dog_speed |-> 100, bag_capacity |-> bag_capacity_, loot_types |-> <<5, 3>>] :
      x \in {50, 100} }

\* Players that walked the road from left to right or from right to left in
\* the tick, or stood still, with an empty bag or with one item in it.
CollideSweeps ==
    { <<Position(0, 0), Position(100, 0)>>, <<Position(100, 0), Position(0, 0)>>,
      <<Position(20, 0), Position(20, 0)>> }

CollideBags == { <<>>, <<Loot(9, 0, Position(50, 0), 7)>> }

CollidePlayers ==
    { [NewPlayer(0, [NewDog("ann", "m1", sweep[2]) EXCEPT !.previous_position = sweep[1]],
                 "t1", capacity) EXCEPT !.bag = bag] :
        sweep \in CollideSweeps, bag \in CollideBags, capacity \in {1, 2} }

\* Loots of value 5 at (2,0) and of value 3 at (8,0), at the places (3,0)
\* and (7,0) of scenario S2 and at the middle of the road, where one of the
\* offices stands; the loots are numbered as they lie in the list.
CollideLoots ==
    { [k \in DOMAIN xs |-> Loot(k - 1, IF xs[k] = 20 THEN 0 ELSE 1, Position(xs[k], 0),
                                IF xs[k] = 20 THEN 5 ELSE 3)] :
        xs \in SeqsUpTo({20, 30, 50, 70, 80}, MaxCollideLoots) }

CollideInit ==
    \E map \in CollideMaps, loots \in CollideLoots,
       players \in SeqsUpTo(CollidePlayers, MaxCollidePlayers) :
        /\ players # <<>>
        /\ collide = [map |-> map, players |-> players, loots |-> loots,
                      result |-> [players |-> <<>>, loots |-> <<>>], done |-> FALSE]

CollideApply ==
    /\ ~collide.done
    /\ \E all_events \in AllEvents(collide.map, collide.players, collide.loots) :
          collide' = [collide EXCEPT
                         !.result = HandleCollisions(collide.players, collide.loots,
                                                     all_events),
                         !.done = TRUE]

CollideIdle ==
    [map |-> [roads |-> <<>>], players |-> <<>>, loots |-> <<>>,
     result |-> [players |-> <<>>, loots |-> <<>>], done |-> FALSE]

-----------------------------------------------------------------------------
(* The threads of the server (SpecConc): the workers hand every API        *)
(* request to the strand, which runs one handler at a time; the game loop  *)
(* thread, started when a tick period is given, calls UpdateState itself.  *)

MaxPending == 2

ApiRequests == {"join", "action", "query", "tick"}

ConcInit ==
    \E tick_period \in {0, 1} :
        conc = [game_loop_running |-> (tick_period > 0), loop |-> "sleep",
                strand |-> "free", pending |-> <<>>]

\* RequestHandler::operator(): a worker dispatches an API request to the strand.
ConcDispatch ==
    /\ Len(conc.pending) < MaxPending
    /\ \E request \in ApiRequests :
          conc' = [conc EXCEPT !.pending = Append(@, request)]

\* The strand takes the next handler when the one before has returned.
ConcHandleApiRequest ==
    /\ conc.strand = "free"
    /\ conc.pending # <<>>
    /\ conc' = [conc EXCEPT !.strand = Head(conc.pending), !.pending = Tail(@)]

\* The handler returns and the response is sent.
ConcSend ==
    /\ conc.strand # "free"
    /\ conc' = [conc EXCEPT !.strand = "free"]

\* Game::GameLoop, line 800: the loop thread enters UpdateState.
ConcLoopUpdateState ==
    /\ conc.game_loop_running
    /\ conc.loop = "sleep"
    /\ conc' = [conc EXCEPT !.loop = "UpdateState"]

\* Game::GameLoop, line 802: UpdateState has returned, the thread sleeps.
ConcLoopSleep ==
    /\ conc.loop = "UpdateState"
    /\ conc' = [conc EXCEPT !.loop = "sleep"]

ConcIdle ==
    [game_loop_running |-> FALSE, loop |-> "sleep", strand |-> "free", pending |-> <<>>]

-----------------------------------------------------------------------------
(* state_serializer: writing a snapshot, and one round trip (SpecTrip) of  *)
(* a game through SerializeGame and DeserializeGame.  In the games of the  *)
(* round trip a coordinate or a speed is an integer counted in units of    *)
(* 10^-7, a tenth of the last decimal Round6 keeps.                        *)

\* geom::Round6: std::round(v * 1e6) / 1e6, halves rounded away from zero.
Round6(v) ==
    IF v >= 0 THEN ((v + 5) \div 10) * 10 ELSE -(((-v + 5) \div 10) * 10)

\* SerializeDog, lines 153-159.
SerializeDirection(direction) ==
    IF direction = "NORTH" THEN "north"
    ELSE IF direction = "SOUTH" THEN "south"
    ELSE IF direction = "WEST" THEN "west"
    ELSE IF direction = "EAST" THEN "east"
    ELSE "north"

SerializeLoot(loot) ==
    [id |-> loot.id, type |-> loot.type, value |-> loot.value,
     position |-> Position(Round6(loot.position.x), Round6(loot.position.y))]

\* SerializeDog; the dog's id, made of its name and map id, is left out.
SerializeDog(dog) ==
    [name |-> dog.name, map_id |-> dog.map_id,
     position |-> Position(Round6(dog.position.x), Round6(dog.position.y)),
     speed |-> Speed(Round6(dog.speed.vx), Round6(dog.speed.vy)),
     direction |-> SerializeDirection(dog.direction)]

SerializePlayer(player) ==
    [id |-> player.id, token |-> player.token, score |-> player.score,
     bag_capacity |-> player.bag_capacity, dog |-> SerializeDog(player.dog),
     bag |-> [i \in DOMAIN player.bag |-> SerializeLoot(player.bag[i])]]

\* SerializeSession; the session's id, made of its map id, is left out.
SerializeSession(session) ==
    [map_id |-> session.map_id, next_loot_id |-> session.next_loot_id,
     players |-> [i \in DOMAIN session.players |-> SerializePlayer(session.players[i])],
     loots |-> [i \in DOMAIN session.loots |-> SerializeLoot(session.loots[i])]]

SerializeGame(all_sessions) ==
    [sessions |-> [i \in DOMAIN all_sessions |-> SerializeSession(all_sessions[i])]]

\* The games of the round trip: no session, or the session of m1 with at
\* most one player.  The player has played and idled for some time, stands
\* at a point whose coordinates Round6 keeps, rounds up or rounds down,
\* and may carry a loot; a loot may lie in the world.
TripCoordinates == {160000000, 4, -5}

TripTimes == {<<0, 0>>, <<1, 0>>, <<1, 1>>}

TripDogs ==
    { [NewDog("ann", "m1", Position(x, 0)) EXCEPT
          !.previous_position = Position(previous_x, 0),
          !.speed = Speed(vx, 0),
          !.direction = direction] :
        x \in TripCoordinates, previous_x \in {0, 4}, vx \in {0, 14},
        direction \in {"NORTH", "WEST"} }

TripPlayers ==
    { [NewPlayer(0, dog, "t1", bag_capacity_) EXCEPT
          !.bag = bag, !.score = IF bag = <<>> THEN 5 ELSE 0,
          !.play_time = times[1], !.idle_time = times[2]] :
        dog \in TripDogs, times \in TripTimes,
        bag \in {<<>>, <<Loot(0, 0, Position(4, 0), 5)>>} }

TripGames ==
    {<<>>} \cup
    { <<[NewSession("m1") EXCEPT
            !.players = players, !.loots = loots, !.next_loot_id = 2,
            !.time_without_loot = time_without_loot]>> :
        players \in {<<>>} \cup { <<player>> : player \in TripPlayers },
        loots \in {<<>>, <<Loot(1, 0, Position(-5, 0), 5)>>},
        time_without_loot \in {0, 1} }

TripInit ==
    \E game \in TripGames :
        trip = [game |-> game, snapshot |-> <<>>, restored |-> <<>>, phase |-> "game"]

\* StateSerializer::Serialize: the snapshot of the game.
TripSerialize ==
    /\ trip.phase = "game"
    /\ trip' = [trip EXCEPT !.snapshot = <<SerializeGame(trip.game)>>, !.phase = "saved"]
    /\ UNCHANGED <<walk, gather, collide, conc, save, gameVars>>

\* StateSerializer::Deserialize into a fresh game with the same maps.
TripDeserialize ==
    /\ trip.phase = "saved"
    /\ trip' = [trip EXCEPT
                   !.restored = DeserializeGame(<<>>, trip.snapshot[1].sessions,
                                                Len(trip.snapshot[1].sessions)),
                   !.phase = "restored"]
    /\ UNCHANGED <<walk, gather, collide, conc, save, gameVars>>

TripIdle == [game |-> <<>>, snapshot |-> <<>>, restored |-> <<>>, phase |-> "idle"]

-----------------------------------------------------------------------------
(* The snapshot writers (SpecSave).  The server was started with a state   *)
(* file.  The strand runs the tick requests one at a time: UpdateState,    *)
(* then SerializingListener::OnTick, which may call Serialize.  The        *)
(* handler of SIGINT and SIGTERM runs on a worker thread, outside the      *)
(* strand, and calls SaveNow, StopGameLoop and ioc.stop.  The game loop    *)
(* thread, when a tick period is given, calls UpdateState.                 *)
(* A file is a sequence of at most two chunks; a chunk is the version of   *)
(* the game the writer serialized, or -1 where nothing was written.  A     *)
(* name (the state file, its ".tmp" file) and an open stream refer to a    *)
(* file by its number, 0 for none.                                         *)

\* The tick requests served and the iterations of the game loop.
MaxSaveTicks == 2

\* The files that can be in use at once: the two names and the two streams.
MaxFiles == 4

Writers == {"strand", "signal"}

\* --save-state-period and the timeDelta of every tick, in seconds.
SavePeriods == {0, 1, 2}

SaveDelta == 1

NoFile == 0

Hole == -1

IsComplete(content) == Len(content) = 2 /\ content[1] = content[2] /\ content[1] # Hole

\* The file after a stream has written chunk k of the snapshot of a version.
WriteChunk(content, k, version) ==
    [i \in 1..Max(Len(content), k) |->
        IF i = k THEN version ELSE IF i <= Len(content) THEN content[i] ELSE Hole]

\* The files that a name or an open stream refers to.
FilesInUse(sv) == {sv.path, sv.tmp, sv.strand.fd, sv.signal.fd} \ {NoFile}

\* A file no name and no stream refers to is gone.
Unlink(sv) ==
    [sv EXCEPT !.files = [f \in DOMAIN sv.files |->
                             IF f \in FilesInUse(sv) THEN sv.files[f] ELSE <<>>]]

SaveInit ==
    \E save_state_period \in SavePeriods, tick_period \in {0, 1}, saved \in BOOLEAN :
        save = [save_period_ |-> IF save_state_period > 0 THEN save_state_period ELSE 0,
                time_since_last_save_ |-> 0,
                game_loop_running_ |-> (tick_period > 0),
                loop |-> "sleep",
                version |-> 0,
                ticks |-> 0,
                stopped |-> FALSE,
                strand |-> [pc |-> "idle", data |-> 0, fd |-> NoFile],
                signal |-> [pc |-> "wait", data |-> 0, fd |-> NoFile],
                path |-> IF saved THEN 1 ELSE NoFile,
                tmp |-> NoFile,
                files |-> [f \in 1..MaxFiles |-> IF saved /\ f = 1 THEN <<0, 0>> ELSE <<>>]]

\* RequestHandler::HandleGameTick on the strand, up to the call of UpdateState.
SaveHandleGameTick ==
    /\ save.strand.pc = "idle"
    /\ ~save.stopped
    /\ save.ticks < MaxSaveTicks
    /\ save' = [save EXCEPT !.strand.pc = "UpdateState", !.ticks = @ + 1]

\* Game::UpdateState returns to HandleGameTick.
SaveUpdateState ==
    /\ save.strand.pc = "UpdateState"
    /\ save' = [save EXCEPT !.version = @ + 1, !.strand.pc = "OnTick"]

\* SerializingListener::OnTick up to the call of Serialize.
SaveOnTick ==
    /\ save.strand.pc = "OnTick"
    /\ LET time_since_last_save == save.time_since_last_save_ + SaveDelta
       IN  save' = [save EXCEPT
                       !.time_since_last_save_ = time_since_last_save,
                       !.strand.pc = IF time_since_last_save >= save.save_period_
                                     THEN "SerializeGame" ELSE "idle"]

\* main, lines 103-108: the signal handler calls SaveNow.
SaveNow ==
    /\ save.signal.pc = "wait"
    /\ save' = [save EXCEPT !.signal.pc = "SerializeGame"]

\* StateSerializer::Serialize, line 24: SerializeGame has read the game.
SaveSerializeGame(w) ==
    /\ save[w].pc = "SerializeGame"
    /\ save' = [save EXCEPT ![w].data = save.version, ![w].pc = "open"]

\* Serialize, line 31: the stream creates the temporary file or empties it.
SaveOpen(w) ==
    /\ save[w].pc = "open"
    /\ LET f == IF save.tmp # NoFile THEN save.tmp
                ELSE CHOOSE g \in DOMAIN save.files :
                        /\ g \notin FilesInUse(save)
                        /\ \A h \in DOMAIN save.files : h \notin FilesInUse(save) => g <= h
       IN  save' = [save EXCEPT !.tmp = f, !.files[f] = <<>>, ![w].fd = f, ![w].pc = "write"]

\* Serialize, line 35: the first part of the text reaches the file.
SaveWrite(w) ==
    /\ save[w].pc = "write"
    /\ save' = [save EXCEPT !.files[save[w].fd] = WriteChunk(@, 1, save[w].data),
                            ![w].pc = "close"]

\* Serialize, line 36: the stream writes the rest and is closed.
SaveClose(w) ==
    /\ save[w].pc = "close"
    /\ save' = Unlink([save EXCEPT !.files[save[w].fd] = WriteChunk(@, 2, save[w].data),
                                   ![w].fd = NoFile,
                                   ![w].pc = "rename"])

\* Serialize, line 39, and the return to OnTick or to the signal handler;
\* rename throws when the temporary file is gone, and the caller logs it.
SaveRename(w) ==
    /\ save[w].pc = "rename"
    /\ LET renamed == save.tmp # NoFile
           after == IF renamed
                    THEN [save EXCEPT !.path = save.tmp, !.tmp = NoFile]
                    ELSE save
       IN  save' = Unlink(IF w = "strand"
                          THEN [after EXCEPT
                                   !.strand.pc = "idle",
                                   !.time_since_last_save_ = IF renamed THEN 0 ELSE @]
                          ELSE [after EXCEPT !.signal.pc = "StopGameLoop"])

\* main, lines 109-110: StopGameLoop joins the loop thread, then ioc.stop.
SaveStopGameLoop ==
    /\ save.signal.pc = "StopGameLoop"
    /\ save.loop = "sleep"
    /\ save' = [save EXCEPT !.game_loop_running_ = FALSE, !.stopped = TRUE,
                            !.signal.pc = "done"]

\* Game::GameLoop, line 800: the loop thread calls UpdateState.
SaveLoopUpdateState ==
    /\ save.game_loop_running_
    /\ save.loop = "sleep"
    /\ save.version < 2 * MaxSaveTicks
    /\ save' = [save EXCEPT !.loop = "UpdateState"]

\* Game::GameLoop, line 802: UpdateState has returned.
SaveLoopSleep ==
    /\ save.loop = "UpdateState"
    /\ save' = [save EXCEPT !.loop = "sleep", !.version = @ + 1]

SaveIdle == [phase |-> "idle"]

-----------------------------------------------------------------------------
(* Scenario S5 (SpecS5): players that have just joined the session of m1,  *)
(* the callback installed, and ticks of one second sent to the tick        *)
(* endpoint.                                                               *)

\* The ticks of the scenario.
S5Ticks == 3

\* ann joins and never sends an action; bob, when he is there, joined after
\* her and has sent one action.
S5Players ==
    LET map == FindMap("m1")[1]
    IN  { <<NewPlayer(0, NewDog("ann", "m1", start_position), "t1", map.bag_capacity)>> \o rest :
            start_position \in JoinPositions(map, TRUE),
            rest \in {<<>>} \cup
                { <<NewPlayer(1, ApplyMove(NewDog("bob", "m1", GetStartPosition(map)),
                                           move_str, map.dog_speed),
                              "t2", map.bag_capacity)>> :
                    move_str \in {"L", "R", "U", "D", ""} } }

S5Init ==
    /\ args = [tick_period |-> 0, state_file |-> <<>>, randomize_spawn_points |-> TRUE]
    /\ host = "RunWorkers"
    /\ \E players \in S5Players :
          /\ sessions_ = <<[NewSession("m1") EXCEPT !.players = players]>>
          /\ next_player_id_ = Len(players)
    /\ retired_player_callback_ = TRUE
    /\ game_loop_running_ = FALSE
    /\ update_period_ = 0
    /\ records = <<>>
    /\ clock = 0
    /\ action_count = 0
    /\ last = [op |-> "join", ticks |-> NoOutcome, request |-> NoRequest]

\* RequestHandler::HandleGameTick with timeDelta = 1000.
S5Tick ==
    /\ host = "RunWorkers"
    /\ clock < S5Ticks
    /\ update_period_' = 1000
    /\ UpdateState(1)
    /\ UNCHANGED <<args, host, retired_player_callback_, game_loop_running_, next_player_id_,
                   action_count>>
    /\ UNCHANGED <<walk, gather, collide, conc, save, trip>>

-----------------------------------------------------------------------------
(* Loading the state file (SpecLoad).  The file holds any JSON value: a     *)
(* value that is not an object, or an object with up to MaxLoadSessions     *)
(* sessions, each of a configured map or of a map the configuration does    *)
(* not have.  Deserialize reads it into a fresh game; trip.thrown is the    *)
(* exception that reaches the caller of Deserialize.                        *)

MaxLoadSessions == 2

LoadMapIds == {"m1", "nomap"}

LoadSessions ==
    { [map_id |-> map_id, next_loot_id |-> 2, players |-> players, loots |-> loots] :
        map_id \in LoadMapIds,
        players \in {<<>>, SavedState.sessions[1].players},
        loots \in {<<>>, SavedState.sessions[1].loots} }

LoadValues ==
    {[is_object |-> FALSE, sessions |-> <<>>]} \cup
    { [is_object |-> TRUE, sessions |-> sessions_array] :
        sessions_array \in SeqsUpTo(LoadSessions, MaxLoadSessions) }

\* DeserializeSession throws when GetOrCreateSession throws "Map not found";
\* the exception is rethrown as a runtime_error.
DeserializeSessionThrows(json_val) == FindMap(json_val.map_id) = <<>>

\* StateSerializer::Deserialize: a value that is not an object throws.  An
\* object goes to DeserializeGame, which reads every session inside a
\* try/catch that writes the exception to cerr and goes on with the next
\* session, so that no exception of a session leaves DeserializeGame.
Deserialize(all_sessions, value) ==
    IF ~value.is_object
    THEN [sessions |-> all_sessions, thrown |-> TRUE]
    ELSE [sessions |-> DeserializeGame(all_sessions, value.sessions, Len(value.sessions)),
          thrown |-> FALSE]

LoadInit ==
    \E value \in LoadValues :
        trip = [game |-> <<>>, snapshot |-> <<value>>, restored |-> <<>>,
                phase |-> "file", thrown |-> FALSE]

\* SerializingListener::LoadState calls Deserialize and catches what it throws.
LoadDeserialize ==
    /\ trip.phase = "file"
    /\ LET result == Deserialize(trip.game, trip.snapshot[1])
       IN  trip' = [trip EXCEPT !.restored = result.sessions,
                                !.thrown = result.thrown,
                                !.phase = "loaded"]
    /\ UNCHANGED <<walk, gather, collide, conc, save, gameVars>>

-----------------------------------------------------------------------------
(* Failing sinks (SpecSink): the server of scenario S5, started with a     *)
(* state file and a record store.  At every tick the record store and the  *)
(* disk may each be down.  save holds the listener: its period, the time    *)
(* since the last snapshot, the game time of the snapshot in the state      *)
(* file (none at the start) and the number of failures written to cerr.     *)

MaxSinkTicks == 3

\* RecordRepository::AddRecord: the INSERT of one row.  When the store is
\* down the exception is caught inside AddRecord and written to cerr.
AddRecord(rows, player, db_up) ==
    IF db_up
    THEN [rows |-> Append(rows, [name |-> player.dog.name, score |-> player.score,
                                 play_time |-> player.play_time]),
          cerr |-> 0]
    ELSE [rows |-> rows, cerr |-> 1]

\* The callback main installs: AddRecord inside try/catch.
RetiredPlayerCallback(rows, player, db_up) == AddRecord(rows, player, db_up)

\* Game::OnPlayerRetired for the players the tick retired, session by
\* session: the rows of the store and the lines on cerr afterwards.
RECURSIVE RetireAllPlayers(_, _, _, _)
RetireAllPlayers(sink, outcomes, n, db_up) ==
    IF n = 0 THEN sink
    ELSE LET before == RetireAllPlayers(sink, outcomes, n - 1, db_up)
             retired == outcomes[n].retired
             F[k \in 0..Len(retired)] ==
                 IF k = 0 THEN before
                 ELSE LET called == RetiredPlayerCallback(F[k - 1].rows, retired[k], db_up)
                      IN  [rows |-> called.rows, cerr |-> F[k - 1].cerr + called.cerr]
         IN  F[Len(retired)]

\* An OnTick that lets the exception of Serialize pass.
OnTick_NoCatch(listener, now, disk_up) ==
    LET time_since_last_save == listener.time_since_last_save_ + SaveDelta
    IN  IF time_since_last_save >= listener.save_period_
        THEN IF disk_up
             THEN [listener |-> [listener EXCEPT !.time_since_last_save_ = 0,
                                                 !.saved_at = <<now>>],
                   thrown |-> FALSE]
             ELSE [listener |-> [listener EXCEPT
                                    !.time_since_last_save_ = time_since_last_save],
                   thrown |-> TRUE]
        ELSE [listener |-> [listener EXCEPT !.time_since_last_save_ = time_since_last_save],
              thrown |-> FALSE]

\* SerializingListener::OnTick: Serialize is called inside try/catch; when it
\* throws, the exception is written to cerr and time_since_last_save_ stays.
OnTick(listener, now, disk_up) ==
    LET time_since_last_save == listener.time_since_last_save_ + SaveDelta
    IN  IF time_since_last_save >= listener.save_period_
        THEN IF disk_up
             THEN [listener |-> [listener EXCEPT !.time_since_last_save_ = 0,
                                                 !.saved_at = <<now>>],
                   thrown |-> FALSE]
             ELSE [listener |-> [listener EXCEPT
                                    !.time_since_last_save_ = time_since_last_save,
                                    !.cerr = @ + 1],
                   thrown |-> FALSE]
        ELSE [listener |-> [listener EXCEPT !.time_since_last_save_ = time_since_last_save],
              thrown |-> FALSE]

SinkInit ==
    \E save_state_period \in SavePeriods :
        save = [save_period_ |-> save_state_period, time_since_last_save_ |-> 0,
                saved_at |-> <<>>, cerr |-> 0]

\* RequestHandler::HandleGameTick with timeDelta = 1000: UpdateState, in
\* which the callback is called for every player retired, then OnTick.  An
\* exception that leaves OnTick is answered with 400.
SinkTick ==
    /\ host = "RunWorkers"
    /\ clock < MaxSinkTicks
    /\ update_period_' = SaveDelta * 1000
    /\ \E outcomes \in GameUpdateState(sessions_, Len(sessions_), SaveDelta),
          db_up \in BOOLEAN, disk_up \in BOOLEAN :
          LET sink == RetireAllPlayers([rows |-> records, cerr |-> save.cerr],
                                       outcomes, Len(outcomes), db_up)
              told == OnTick([save EXCEPT !.cerr = sink.cerr], clock + SaveDelta, disk_up)
          IN  /\ sessions_' = [i \in DOMAIN outcomes |-> outcomes[i].session]
              /\ records' = sink.rows
              /\ clock' = clock + SaveDelta
              /\ save' = told.listener
              /\ last' = [op |-> IF told.thrown THEN "invalid_tick" ELSE "tick",
                          ticks |-> [i \in DOMAIN outcomes |->
                                        [loot_count |-> outcomes[i].loot_count,
                                         looter_count |-> outcomes[i].looter_count,
                                         spawned |-> outcomes[i].spawned,
                                         score_before |-> outcomes[i].score_before,
                                         bag_value_before |-> outcomes[i].bag_value_before,
                                         loot_value_before |-> outcomes[i].loot_value_before,
                                         retired |-> outcomes[i].retired]],
                          request |-> NoRequest]
    /\ UNCHANGED <<args, host, retired_player_callback_, game_loop_running_, next_player_id_,
                   action_count>>
    /\ UNCHANGED <<walk, gather, collide, conc, trip>>

-----------------------------------------------------------------------------
(* The Application and its listeners (SpecApp).  conc holds the vector     *)
(* listeners_, the number of times Game::UpdateState has been called        *)
(* (game_version), the number of calls of Tick, and for the last Tick the   *)
(* calls of OnTick in the order they were made, each with the game_version  *)
(* the listener found.                                                      *)

MaxListeners == 3

MaxAppTicks == 2

AppListeners == {"snapshot", "records"}

AppInit ==
    conc = [listeners_ |-> <<>>, game_version |-> 0, ticks |-> 0, notified |-> <<>>]

\* Application::AddListener: push_back.
AppAddListener ==
    /\ Len(conc.listeners_) < MaxListeners
    /\ \E listener \in AppListeners :
          conc' = [conc EXCEPT !.listeners_ = Append(@, listener)]

\* Application::RemoveListener: std::remove and erase.
AppRemoveListener ==
    \E listener \in AppListeners :
        /\ listener \in Range(conc.listeners_)
        /\ conc' = [conc EXCEPT !.listeners_ = SelectSeq(@, LAMBDA l : l # listener)]

\* Application::Tick: OnTick of every listener, from the first of the vector
\* to the last, and then Game::UpdateState.
AppNotify(listeners, game_version) ==
    [notified |-> [k \in DOMAIN listeners |->
                      [listener |-> listeners[k], game_version |-> game_version]],
     game_version |-> game_version + 1]

AppTick ==
    /\ conc.ticks < MaxAppTicks
    /\ LET done == AppNotify(conc.listeners_, conc.game_version)
       IN  conc' = [conc EXCEPT !.notified = done.notified,
                                !.game_version = done.game_version,
                                !.ticks = @ + 1]

-----------------------------------------------------------------------------
(* Spawning loot on every configured map (SpecSpawn).  One session of any   *)
(* map of the configuration, the map without loot types included, holds     *)
(* ann, who has joined and has sent at most one action; the game is ticked  *)
(* through the tick endpoint.                                               *)

SpawnInit ==
    /\ args = [tick_period |-> 0, state_file |-> <<>>, randomize_spawn_points |-> TRUE]
    /\ host = "RunWorkers"
    /\ \E map_id \in DOMAIN maps_ :
          LET map == FindMap(map_id)[1]
          IN  \E start_position \in JoinPositions(map, TRUE), move_str \in {"R", ""} :
                  sessions_ =
                      <<[NewSession(map_id) EXCEPT
                            !.players =
                                <<NewPlayer(0, ApplyMove(NewDog("ann", map_id, start_position),
                                                         move_str, map.dog_speed),
                                            "t1", map.bag_capacity)>>]>>
    /\ next_player_id_ = 1
    /\ retired_player_callback_ = TRUE
    /\ game_loop_running_ = FALSE
    /\ update_period_ = 0
    /\ records = <<>>
    /\ clock = 0
    /\ action_count = 0
    /\ last = [op |-> "join", ticks |-> NoOutcome, request |-> NoRequest]

-----------------------------------------------------------------------------
(* The generator of loot_generator_tests.cpp (SpecS6): LootGenerator with  *)
(* a period of 1 s and a probability of 0.5, called a few times in a row.  *)
(* Times are in tenths of a second, probabilities in thousandths and the   *)
(* random value in halves; gather holds the accumulator of the generator   *)
(* and the last call.                                                      *)

MaxS6Calls == 3

\* The period of the generator: 1 s.
S6BaseInterval == 10

\* 1000 * (1 - (1 - 0.5)^ratio) for ratio = min(1, time_without_loot / period),
\* rounded to the nearest thousandth, for every tenth of the period.
S6ProbabilityQ1000(time_without_loot) ==
    LET tenths == Min(S6BaseInterval, time_without_loot)
    IN  <<0, 67, 129, 188, 242, 293, 340, 384, 426, 464, 500>>[tenths + 1]

\* A generator that never clears its accumulator.
S6Generate_KeepsTime(time_without_loot, time_delta, loot_count, looter_count, random_q2) ==
    LET T == time_without_loot + time_delta
        loot_shortage == LootShortage(loot_count, looter_count)
        n0 == (loot_shortage * S6ProbabilityQ1000(T) * random_q2 + 1000) \div 2000
    IN  [generated |-> Min(n0, loot_shortage), time_without_loot |-> T]

\* LootGenerator::Generate of this generator.
S6Generate(time_without_loot, time_delta, loot_count, looter_count, random_q2) ==
    LET T == time_without_loot + time_delta
        loot_shortage == LootShortage(loot_count, looter_count)
        n0 == (loot_shortage * S6ProbabilityQ1000(T) * random_q2 + 1000) \div 2000
        generated == Min(n0, loot_shortage)
    IN  IF loot_shortage = 0
        THEN [generated |-> 0, time_without_loot |-> 0]
        ELSE [generated |-> generated,
              time_without_loot |-> IF generated > 0 THEN 0 ELSE T]

\* The intervals of the tests: 0, 0.1 s, 0.5 s and 1 s.
S6Deltas == {0, 1, 5, 10}

S6LootCounts == {0, 3, 5, 10}

S6LooterCounts == {0, 5, 10}

\* The injected random sources: always 0.0, always 0.5, always 1.0.
S6Randoms == {0, 1, 2}

S6Init ==
    \E random_q2 \in S6Randoms :
        gather = [time_without_loot |-> 0, random_q2 |-> random_q2, calls |-> 0,
                  time_delta |-> 0, loot_count |-> 0, looter_count |-> 0,
                  generated |-> 0]

\* gen.Generate(time_delta, loot_count, looter_count)
S6Call ==
    /\ gather.calls < MaxS6Calls
    /\ \E time_delta \in S6Deltas, loot_count \in S6LootCounts,
          looter_count \in S6LooterCounts :
          LET result == S6Generate(gather.time_without_loot, time_delta, loot_count,
                                   looter_count, gather.random_q2)
          IN  gather' = [gather EXCEPT !.time_without_loot = result.time_without_loot,
                                       !.calls = @ + 1,
                                       !.time_delta = time_delta,
                                       !.loot_count = loot_count,
                                       !.looter_count = looter_count,
                                       !.generated = result.generated]
    /\ UNCHANGED <<walk, collide, conc, save, trip, gameVars>>

-----------------------------------------------------------------------------
(* The life of the game loop thread (SpecLoop, SpecLoopFair):               *)
(* Game::StartGameLoop, Game::StopGameLoop and Game::GameLoop.  One         *)
(* controlling thread (main, then the signal handler) calls StartGameLoop   *)
(* and StopGameLoop one after the other; every loop thread ever started     *)
(* has its position in conc.threads; game_loop_thread_ is the index of the  *)
(* thread the std::thread member owns, 0 when it is not joinable.           *)
(* ticks_after_clear counts the UpdateState calls of the loop made since    *)
(* the flag was last cleared while it is clear, returned says that          *)
(* StopGameLoop has returned and StartGameLoop has not set the flag since.  *)

MaxLoopCalls == 4

\* std::atomic<bool> game_loop_running_{ false } and a default std::thread.
LoopInit ==
    conc = [game_loop_running_ |-> FALSE, threads |-> <<>>, game_loop_thread_ |-> 0,
            ctl |-> "idle", calls |-> 0, ticks_after_clear |-> 0, returned |-> FALSE]

\* The loop threads that have not left GameLoop.
LiveThreads == {i \in DOMAIN conc.threads : conc.threads[i] # "finished"}

\* main, line 70: game.StartGameLoop() is called.
LoopCallStart ==
    /\ conc.ctl = "idle"
    /\ conc.calls < MaxLoopCalls
    /\ conc' = [conc EXCEPT !.ctl = "Start_check", !.calls = @ + 1]

\* A StartGameLoop without its guard.
LoopStartCheck_NoGuard ==
    /\ conc.ctl = "Start_check"
    /\ conc' = [conc EXCEPT !.ctl = "Start_set"]

\* StartGameLoop, line 861: if (game_loop_running_) return;
LoopStartCheck ==
    /\ conc.ctl = "Start_check"
    /\ conc' = [conc EXCEPT !.ctl = IF conc.game_loop_running_ THEN "idle" ELSE "Start_set"]

\* StartGameLoop, line 863: game_loop_running_ = true;
LoopStartSet ==
    /\ conc.ctl = "Start_set"
    /\ conc' = [conc EXCEPT !.game_loop_running_ = TRUE, !.returned = FALSE,
                            !.ctl = "Start_thread"]

\* StartGameLoop, line 864: the new thread is moved into game_loop_thread_;
\* the assignment to a std::thread that is joinable calls std::terminate.
LoopStartThread ==
    /\ conc.ctl = "Start_thread"
    /\ conc' = [conc EXCEPT !.threads = Append(@, "while"),
                            !.game_loop_thread_ = Len(conc.threads) + 1,
                            !.ctl = IF conc.game_loop_thread_ # 0 THEN "terminate" ELSE "idle"]

\* The signal handler, line 109: game.StopGameLoop() is called.
LoopCallStop ==
    /\ conc.ctl = "idle"
    /\ conc.calls < MaxLoopCalls
    /\ conc' = [conc EXCEPT !.ctl = "Stop_clear", !.calls = @ + 1]

\* StopGameLoop, line 868: game_loop_running_ = false;
LoopStopClear ==
    /\ conc.ctl = "Stop_clear"
    /\ conc' = [conc EXCEPT !.game_loop_running_ = FALSE, !.ticks_after_clear = 0,
                            !.ctl = "Stop_join"]

\* StopGameLoop, lines 869-871: join returns when the thread has left
\* GameLoop; a thread that is not joinable is not joined.
LoopStopJoin ==
    /\ conc.ctl = "Stop_join"
    /\ conc.game_loop_thread_ # 0 => conc.threads[conc.game_loop_thread_] = "finished"
    /\ conc' = [conc EXCEPT !.game_loop_thread_ = 0, !.returned = TRUE, !.ctl = "idle"]

\* GameLoop, line 794: while (game_loop_running_)
LoopWhile(i) ==
    /\ conc.threads[i] = "while"
    /\ conc' = [conc EXCEPT !.threads[i] =
                    IF conc.game_loop_running_ THEN "UpdateState" ELSE "finished"]

\* GameLoop, lines 795-800: UpdateState(delta_time)
LoopUpdateState(i) ==
    /\ conc.threads[i] = "UpdateState"
    /\ conc' = [conc EXCEPT !.threads[i] = "sleep_for",
                            !.ticks_after_clear =
                                IF conc.game_loop_running_ THEN @ ELSE Min(@ + 1, 2)]

\* GameLoop, line 802: std::this_thread::sleep_for(update_period_), which
\* returns after the period, whatever period it has read.
LoopSleepFor(i) ==
    /\ conc.threads[i] = "sleep_for"
    /\ conc' = [conc EXCEPT !.threads[i] = "while"]

\* A step of some loop thread.
LoopThread ==
    \E i \in DOMAIN conc.threads : LoopWhile(i) \/ LoopUpdateState(i) \/ LoopSleepFor(i)

-----------------------------------------------------------------------------
(* The specifications                                                      *)

Init ==
    /\ GameInit
    /\ walk = WalkIdle
    /\ gather = GatherIdle
    /\ collide = CollideIdle
    /\ conc = ConcIdle
    /\ save = SaveIdle
    /\ trip = TripIdle

Next ==
    \/ MainLoadState
    \/ MainStartGameLoop
    \/ MainSetRetiredPlayerCallback
    \/ MainServeHttp
    \/ GameLoop
    \/ HandleGameTick
    \/ HandleJoinGame
    \/ HandlePlayerAction
    \/ HandleGetRecords

Spec == Init /\ [][Next]_vars

InitMove ==
    WalkInit /\ gather = GatherIdle /\ collide = CollideIdle /\ conc = ConcIdle
    /\ save = SaveIdle /\ trip = TripIdle /\ GameIdle

NextMove == WalkMove /\ UNCHANGED <<gather, collide, conc, save, trip, gameVars>>

SpecMove == InitMove /\ [][NextMove]_vars

InitGather ==
    GatherInit /\ walk = WalkIdle /\ collide = CollideIdle /\ conc = ConcIdle
    /\ save = SaveIdle /\ trip = TripIdle /\ GameIdle

NextGather == GatherFind /\ UNCHANGED <<walk, collide, conc, save, trip, gameVars>>

SpecGather == InitGather /\ [][NextGather]_vars

InitCollide ==
    CollideInit /\ walk = WalkIdle /\ gather = GatherIdle /\ conc = ConcIdle
    /\ save = SaveIdle /\ trip = TripIdle /\ GameIdle

NextCollide == CollideApply /\ UNCHANGED <<walk, gather, conc, save, trip, gameVars>>

SpecCollide == InitCollide /\ [][NextCollide]_vars

InitConc ==
    ConcInit /\ walk = WalkIdle /\ gather = GatherIdle /\ collide = CollideIdle
    /\ save = SaveIdle /\ trip = TripIdle /\ GameIdle

NextConc ==
    \/ ConcDispatch /\ UNCHANGED <<walk, gather, collide, save, trip, gameVars>>
    \/ ConcHandleApiRequest /\ UNCHANGED <<walk, gather, collide, save, trip, gameVars>>
    \/ ConcSend /\ UNCHANGED <<walk, gather, collide, save, trip, gameVars>>
    \/ ConcLoopUpdateState /\ UNCHANGED <<walk, gather, collide, save, trip, gameVars>>
    \/ ConcLoopSleep /\ UNCHANGED <<walk, gather, collide, save, trip, gameVars>>

SpecConc == InitConc /\ [][NextConc]_vars

InitS5 ==
    S5Init /\ walk = WalkIdle /\ gather = GatherIdle /\ collide = CollideIdle /\ conc = ConcIdle
    /\ save = SaveIdle /\ trip = TripIdle

NextS5 == S5Tick

SpecS5 == InitS5 /\ [][NextS5]_vars

InitTrip ==
    TripInit /\ walk = WalkIdle /\ gather = GatherIdle /\ collide = CollideIdle
    /\ conc = ConcIdle /\ save = SaveIdle /\ GameIdle

NextTrip ==
    \/ TripSerialize
    \/ TripDeserialize

SpecTrip == InitTrip /\ [][NextTrip]_vars

InitSave ==
    SaveInit /\ walk = WalkIdle /\ gather = GatherIdle /\ collide = CollideIdle
    /\ conc = ConcIdle /\ trip = TripIdle /\ GameIdle

NextSave ==
    \/ SaveHandleGameTick /\ UNCHANGED <<walk, gather, collide, conc, trip, gameVars>>
    \/ SaveUpdateState /\ UNCHANGED <<walk, gather, collide, conc, trip, gameVars>>
    \/ SaveOnTick /\ UNCHANGED <<walk, gather, collide, conc, trip, gameVars>>
    \/ SaveNow /\ UNCHANGED <<walk, gather, collide, conc, trip, gameVars>>
    \/ \E w \in Writers :
          SaveSerializeGame(w) /\ UNCHANGED <<walk, gather, collide, conc, trip, gameVars>>
    \/ \E w \in Writers :
          SaveOpen(w) /\ UNCHANGED <<walk, gather, collide, conc, trip, gameVars>>
    \/ \E w \in Writers :
          SaveWrite(w) /\ UNCHANGED <<walk, gather, collide, conc, trip, gameVars>>
    \/ \E w \in Writers :
          SaveClose(w) /\ UNCHANGED <<walk, gather, collide, conc, trip, gameVars>>
    \/ \E w \in Writers :
          SaveRename(w) /\ UNCHANGED <<walk, gather, collide, conc, trip, gameVars>>
    \/ SaveStopGameLoop /\ UNCHANGED <<walk, gather, collide, conc, trip, gameVars>>
    \/ SaveLoopUpdateState /\ UNCHANGED <<walk, gather, collide, conc, trip, gameVars>>
    \/ SaveLoopSleep /\ UNCHANGED <<walk, gather, collide, conc, trip, gameVars>>

SpecSave == InitSave /\ [][NextSave]_vars

InitLoad ==
    LoadInit /\ walk = WalkIdle /\ gather = GatherIdle /\ collide = CollideIdle
    /\ conc = ConcIdle /\ save = SaveIdle /\ GameIdle

NextLoad == LoadDeserialize

SpecLoad == InitLoad /\ [][NextLoad]_vars

InitSink ==
    S5Init /\ SinkInit /\ walk = WalkIdle /\ gather = GatherIdle /\ collide = CollideIdle
    /\ conc = ConcIdle /\ trip = TripIdle

NextSink == SinkTick

SpecSink == InitSink /\ [][NextSink]_vars

InitApp ==
    AppInit /\ walk = WalkIdle /\ gather = GatherIdle /\ collide = CollideIdle
    /\ save = SaveIdle /\ trip = TripIdle /\ GameIdle

NextApp ==
    \/ AppAddListener /\ UNCHANGED <<walk, gather, collide, save, trip, gameVars>>
    \/ AppRemoveListener /\ UNCHANGED <<walk, gather, collide, save, trip, gameVars>>
    \/ AppTick /\ UNCHANGED <<walk, gather, collide, save, trip, gameVars>>

SpecApp == InitApp /\ [][NextApp]_vars

InitSpawn ==
    SpawnInit /\ walk = WalkIdle /\ gather = GatherIdle /\ collide = CollideIdle
    /\ conc = ConcIdle /\ save = SaveIdle /\ trip = TripIdle

NextSpawn == S5Tick

SpecSpawn == InitSpawn /\ [][NextSpawn]_vars

InitS6 ==
    S6Init /\ walk = WalkIdle /\ collide = CollideIdle /\ conc = ConcIdle
    /\ save = SaveIdle /\ trip = TripIdle /\ GameIdle

NextS6 == S6Call

SpecS6 == InitS6 /\ [][NextS6]_vars

InitLoop ==
    LoopInit /\ walk = WalkIdle /\ gather = GatherIdle /\ collide = CollideIdle
    /\ save = SaveIdle /\ trip = TripIdle /\ GameIdle

NextLoop ==
    \/ LoopCallStart /\ UNCHANGED <<walk, gather, collide, save, trip, gameVars>>
    \/ LoopStartCheck /\ UNCHANGED <<walk, gather, collide, save, trip, gameVars>>
    \/ LoopStartSet /\ UNCHANGED <<walk, gather, collide, save, trip, gameVars>>
    \/ LoopStartThread /\ UNCHANGED <<walk, gather, collide, save, trip, gameVars>>
    \/ LoopCallStop /\ UNCHANGED <<walk, gather, collide, save, trip, gameVars>>
    \/ LoopStopClear /\ UNCHANGED <<walk, gather, collide, save, trip, gameVars>>
    \/ LoopStopJoin /\ UNCHANGED <<walk, gather, collide, save, trip, gameVars>>
    \/ LoopThread /\ UNCHANGED <<walk, gather, collide, save, trip, gameVars>>

SpecLoop == InitLoop /\ [][NextLoop]_vars

\* The scheduler runs every thread that can take a step: a loop thread is
\* never suspended for ever, and the thread inside StopGameLoop goes on.
SpecLoopFair ==
    /\ SpecLoop
    /\ WF_vars(LoopThread /\ UNCHANGED <<walk, gather, collide, save, trip, gameVars>>)
    /\ WF_vars(LoopStopJoin /\ UNCHANGED <<walk, gather, collide, save, trip, gameVars>>)

-----------------------------------------------------------------------------
(* Properties of the server                                                *)

\* The players of the game, as pairs <<session index, player index>>.
Players ==
    UNION { {i} \X DOMAIN sessions_[i].players : i \in DOMAIN sessions_ }

PlayerAt(ij) == sessions_[ij[1]].players[ij[2]]

\* The sweep of a player in the last tick, as the gatherer of HandleCollisions.
Sweep(player) ==
    Gatherer(player.dog.previous_position, player.dog.position, DogWidth)

HasMoved(player) == player.dog.previous_position # player.dog.position

\* The last tick took the player over the loot.
SweptOver(player, loot) ==
    HasMoved(player) /\ IsCollected(Sweep(player), Item(loot.position, LootWidth))

\* C1: in every reachable state, after any sequence of snapshot load, join,
\* player action and tick, the bag of every player holds at most
\* bag_capacity items.
C1_BagWithinCapacity ==
    \A ij \in Players : Len(PlayerAt(ij).bag) <= PlayerAt(ij).bag_capacity

\* C1 happens: a tick took a player whose bag is full over a loot, and the
\* loot stayed in the world.
C1_Witness ==
    /\ last.op = "tick"
    /\ \E ij \in Players :
          /\ Len(PlayerAt(ij).bag) = PlayerAt(ij).bag_capacity
          /\ \E k \in DOMAIN sessions_[ij[1]].loots :
                SweptOver(PlayerAt(ij), sessions_[ij[1]].loots[k])

BagIds(player) == { player.bag[k].id : k \in DOMAIN player.bag }

WorldIds(session) == { session.loots[k].id : k \in DOMAIN session.loots }

\* C2: a loot is resolved by at most one pickup: no loot id is at once in
\* the world and in a bag of its session, or in the bags of two players of
\* its session, and no bag holds an id twice.
C2_LootInOnePlace ==
    \A i \in DOMAIN sessions_ :
        \A j \in DOMAIN sessions_[i].players :
            LET player == sessions_[i].players[j]
            IN  /\ BagIds(player) \cap WorldIds(sessions_[i]) = {}
                /\ Cardinality(BagIds(player)) = Len(player.bag)
                /\ \A j2 \in DOMAIN sessions_[i].players :
                      j2 # j => BagIds(player) \cap BagIds(sessions_[i].players[j2]) = {}

\* C2 happens: a tick took two players with room in their bags over a loot
\* spawned in that tick, and one of them holds it.
C2_Witness ==
    /\ last.op = "tick"
    /\ \E i \in DOMAIN sessions_ :
          \E j1, j2 \in DOMAIN sessions_[i].players :
             LET p1 == sessions_[i].players[j1]
                 p2 == sessions_[i].players[j2]
             IN  /\ j1 # j2
                 /\ Len(p2.bag) < p2.bag_capacity
                 /\ \E k \in DOMAIN p1.bag, n \in DOMAIN last.ticks[i].spawned :
                       /\ p1.bag[k] = last.ticks[i].spawned[n]
                       /\ SweptOver(p1, p1.bag[k])
                       /\ SweptOver(p2, p1.bag[k])

\* The players a session had during its last tick: those still there and
\* those the tick retired.
TickPlayers(i) == sessions_[i].players \o last.ticks[i].retired

\* What the scores of session i grew by in the last tick.
ScoreGain(i) == SumScores(TickPlayers(i)) - last.ticks[i].score_before

\* The value of the items that were in a bag or in the world of session i
\* during the last tick and are in neither afterwards: the items delivered.
DeliveredValue(i) ==
    (last.ticks[i].bag_value_before + last.ticks[i].loot_value_before
        + SumValues(last.ticks[i].spawned))
    - (SumBags(TickPlayers(i)) + SumValues(sessions_[i].loots))

ScoresConserved ==
    \A i \in DOMAIN last.ticks : ScoreGain(i) = DeliveredValue(i)

\* C3: in every tick the scores of the players grow in total by the value
\* of the items the deliveries of the tick removed from the bags, and no
\* other operation changes the score of a player.
C3_ScoreFromDeliveries ==
    [][ /\ last'.op = "tick" => ScoresConserved'
        /\ last'.op # "tick" =>
              \A ij \in Players :
                  sessions_'[ij[1]].players[ij[2]].score = PlayerAt(ij).score ]_vars

\* C3 happens: a tick delivered a bag that was not empty.
C3_Witness ==
    /\ last.op = "tick"
    /\ \E i \in DOMAIN last.ticks : ScoreGain(i) > 0

\* C8: generate never returns more than max(0, looter_count - loot_count);
\* so the loots of a session, counted with those a spawn phase adds, never
\* exceed the looters unless they did before.
C8_SpawnWithinShortage ==
    last.op = "tick" =>
        \A i \in DOMAIN last.ticks :
            LET t == last.ticks[i]
            IN  /\ Len(t.spawned) <= Max(0, t.looter_count - t.loot_count)
                /\ t.loot_count + Len(t.spawned) <= Max(t.looter_count, t.loot_count)

\* C8 happens: a tick spawned as many loots as were short, and a tick
\* with more than one loot short spawned fewer.
C8_Witness ==
    /\ last.op = "tick"
    /\ \E i \in DOMAIN last.ticks :
          LET t == last.ticks[i]
          IN  /\ t.looter_count - t.loot_count = 2
              /\ Len(t.spawned) = 2

\* The rows the callback is owed for the players the last tick retired.
RECURSIVE RowsOf(_)
RowsOf(retired) ==
    IF retired = <<>> THEN <<>>
    ELSE <<[name |-> retired[1].dog.name, score |-> retired[1].score,
            play_time |-> retired[1].play_time]>> \o RowsOf(Tail(retired))

RECURSIVE RowsOwed(_)
RowsOwed(ticks) ==
    IF ticks = <<>> THEN <<>> ELSE RowsOf(ticks[1].retired) \o RowsOwed(Tail(ticks))

\* C10: a player is retired at the end of the first tick at which its
\* idle_time has reached dog_retirement_time: the callback is invoked
\* exactly once for it with its name, score and play_time, the player is
\* gone from the session and its token resolves no more; a player whose
\* idle_time is below the threshold is never retired.
C10_RetiredExactlyOnce ==
    [][ /\ last'.op = "tick" =>
              /\ records' = records \o RowsOwed(last'.ticks)
              /\ \A i \in DOMAIN last'.ticks :
                    \A k \in DOMAIN last'.ticks[i].retired :
                       /\ last'.ticks[i].retired[k].idle_time >= dog_retirement_time_
                       /\ FindPlayerByToken(sessions_', last'.ticks[i].retired[k].token) = <<>>
              /\ \A i \in DOMAIN sessions_' :
                    \A j \in DOMAIN sessions_'[i].players :
                       sessions_'[i].players[j].idle_time < dog_retirement_time_
        /\ last'.op # "tick" =>
              /\ records' = records
              /\ \A ij \in Players : ij[2] \in DOMAIN sessions_'[ij[1]].players ]_vars

ContractCollects(g, i) ==
    /\ g.start_pos # g.end_pos
    /\ LET result == TryCollectPoint(g.start_pos, g.end_pos, i.position)
       IN  /\ result.proj_ratio.num >= 0
           /\ result.proj_ratio.num <= result.proj_ratio.den
           /\ RatioLeq(result.sq_distance,
                       Ratio((g.width + i.width) * (g.width + i.width), 1))

HasEvent(events, gatherer_id, item_id) ==
    \E k \in DOMAIN events :
        events[k].gatherer_id = gatherer_id /\ events[k].item_id = item_id

\* C6: FindGatherEvents reports an event for gatherer g and item i exactly
\* when g moves, 0 <= proj_ratio <= 1 and sq_distance <= (r_g + r_i)^2.
C6_EventIffWithinSumOfRadii ==
    gather.done =>
        \A g \in DOMAIN gather.provider.gatherers, i \in DOMAIN gather.provider.items :
            HasEvent(gather.events, g - 1, i - 1)
                <=> ContractCollects(gather.provider.gatherers[g],
                                     gather.provider.items[i])

RatioEq(a, b) == a.num * b.den = b.num * a.den

\* The time of the event of a player's sweep at a point.
EventTime(player, position) ==
    TryCollectPoint(player.dog.previous_position, player.dog.position, position).proj_ratio

\* The sweep of the player raises an event for a loot, or for an office.
PicksUp(player, loot) == SweptOver(player, loot)

Delivers(player, office) ==
    HasMoved(player) /\ IsCollected(Sweep(player), Item(office.position, OfficeWidth))

DeliveryTimes(player) ==
    { EventTime(player, office.position) :
        office \in { o \in Range(collide.map.offices) : Delivers(player, o) } }

\* Loot k is the only loot player j has an event for, and no other player
\* has an event for it.
SolePickup(j, k) ==
    /\ PicksUp(collide.players[j], collide.loots[k])
    /\ \A k2 \in DOMAIN collide.loots :
          k2 # k => ~PicksUp(collide.players[j], collide.loots[k2])
    /\ \A j2 \in DOMAIN collide.players :
          j2 # j => ~PicksUp(collide.players[j2], collide.loots[k])

\* Player j delivers, and only before it reaches loot k.
DeliveryThenPickup(j, k) ==
    LET player == collide.players[j]
        pickup == EventTime(player, collide.loots[k].position)
    IN  /\ SolePickup(j, k)
        /\ DeliveryTimes(player) # {}
        /\ \A t \in DeliveryTimes(player) : RatioLess(t, pickup)

\* Player j reaches loot k with room in the bag and delivers only after it.
PickupThenDelivery(j, k) ==
    LET player == collide.players[j]
        pickup == EventTime(player, collide.loots[k].position)
    IN  /\ SolePickup(j, k)
        /\ Len(player.bag) < player.bag_capacity
        /\ DeliveryTimes(player) # {}
        /\ \A t \in DeliveryTimes(player) : RatioLess(pickup, t)

\* Scenario S3: road (0,0)-(10,0), office at (10,0), a loot of value 5 at
\* (2,0), one dog with an empty bag moved from (0,0) to (10,0).
ScenarioS3 ==
    /\ collide.map.offices = <<[position |-> Position(100, 0)]>>
    /\ collide.loots = <<Loot(0, 0, Position(20, 0), 5)>>
    /\ Len(collide.players) = 1
    /\ collide.players[1].bag = <<>>
    /\ collide.players[1].dog.previous_position = Position(0, 0)
    /\ collide.players[1].dog.position = Position(100, 0)

\* C5: within a tick the events are applied in ascending time: a player
\* that delivers at t1 and picks a loot up at t2 > t1 is scored its old bag
\* and keeps the new loot in the bag, and a player that picks a loot up at
\* t1 and delivers at t2 > t1 is scored the loot in that tick; in S3 the
\* pickup at 0.2 and the delivery at 1.0 give score +5, an empty bag and no
\* loot in the world.
C5_EventsAppliedInTimeOrder ==
    collide.done =>
        /\ \A j \in DOMAIN collide.players, k \in DOMAIN collide.loots :
              LET before == collide.players[j]
                  after == collide.result.players[j]
                  loot == collide.loots[k]
              IN  /\ DeliveryThenPickup(j, k) =>
                        /\ after.score = before.score + SumValues(before.bag)
                        /\ after.bag = <<loot>>
                        /\ loot \notin Range(collide.result.loots)
                  /\ PickupThenDelivery(j, k) =>
                        /\ after.score = before.score + SumValues(before.bag) + loot.value
                        /\ after.bag = <<>>
                        /\ loot \notin Range(collide.result.loots)
        /\ ScenarioS3 =>
              /\ RatioEq(EventTime(collide.players[1], collide.loots[1].position),
                         Ratio(2, 10))
              /\ RatioEq(EventTime(collide.players[1], collide.map.offices[1].position),
                         Ratio(10, 10))
              /\ collide.result.players[1].score = collide.players[1].score + 5
              /\ collide.result.players[1].bag = <<>>
              /\ collide.result.loots = <<>>

\* C5 happens: a player with an item in the bag delivered it and picked a
\* loot up later in the same tick.
C5_Witness ==
    /\ collide.done
    /\ \E j \in DOMAIN collide.players, k \in DOMAIN collide.loots :
          /\ DeliveryThenPickup(j, k)
          /\ collide.players[j].bag # <<>>

\* The test FindGatherEvents applies to gatherer g and item i of the provider.
Detected(g, i) ==
    LET gatherer == gather.provider.gatherers[g]
        item == gather.provider.items[i]
    IN  /\ gatherer.start_pos # gatherer.end_pos
        /\ IsCollected(gatherer, item)

C9_OneOperationAtATime ==
    ~(conc.loop = "UpdateState" /\ conc.strand # "free")

-----------------------------------------------------------------------------
(* Scenario S5: retirement of a dog that never moves                       *)

\* The rows the callback wrote for the dog of that name.
RowsNamed(name) == SelectSeq(records, LAMBDA row : row.name = name)

\* The dog of that name is still a player of a session.
InSession(name) == \E ij \in Players : PlayerAt(ij).dog.name = name

\* C11 as the scenario states it: after the three ticks of one second, the
\* callback has fired exactly once for the stationary dog, with a play time
\* of 3, and the player is gone.
C11_S5RetiredWithPlayTimeThree ==
    clock = S5Ticks =>
        /\ Len(RowsNamed("ann")) = 1
        /\ RowsNamed("ann")[1].play_time = 3
        /\ ~InSession("ann")

\* C11, amended: the stationary dog is retired by the second tick, the one
\* on which its idle time reaches dog_retirement_time = 2.  Before that tick
\* it is a player and no row is written; from that tick on it is gone and
\* exactly one row is written for it, with its score and a play time of 2;
\* the third tick adds nothing.
C11_S5RetiredAtSecondTick ==
    /\ clock < dog_retirement_time_ =>
          /\ RowsNamed("ann") = <<>>
          /\ InSession("ann")
    /\ clock >= dog_retirement_time_ =>
          /\ RowsNamed("ann") = <<[name |-> "ann", score |-> 0, play_time |-> 2]>>
          /\ ~InSession("ann")

C11_Witness ==
    /\ clock = S5Ticks
    /\ last.op = "tick"
    /\ Len(RowsNamed("ann")) = 1
    /\ ~InSession("ann")

-----------------------------------------------------------------------------
(* Round trip of a snapshot                                                *)

\* b is a rounded to 6 decimals: a multiple of 10^-6 at most half of 10^-6
\* away from a.
Rounded6(a, b) == b % 10 = 0 /\ 2 * (a - b) <= 10 /\ 2 * (b - a) <= 10

RoundedPosition(p, q) == Rounded6(p.x, q.x) /\ Rounded6(p.y, q.y)

SameLoots(loots, restored) ==
    /\ Len(restored) = Len(loots)
    /\ \A k \in DOMAIN loots :
          /\ restored[k].id = loots[k].id
          /\ restored[k].type = loots[k].type
          /\ restored[k].value = loots[k].value
          /\ RoundedPosition(loots[k].position, restored[k].position)

\* What a snapshot holds of a player, of its dog and of a session.
SamePlayerSaved(player, restored) ==
    /\ restored.id = player.id
    /\ restored.token = player.token
    /\ restored.score = player.score
    /\ restored.bag_capacity = player.bag_capacity
    /\ SameLoots(player.bag, restored.bag)
    /\ restored.dog.name = player.dog.name
    /\ restored.dog.map_id = player.dog.map_id
    /\ restored.dog.direction = player.dog.direction
    /\ RoundedPosition(player.dog.position, restored.dog.position)
    /\ Rounded6(player.dog.speed.vx, restored.dog.speed.vx)
    /\ Rounded6(player.dog.speed.vy, restored.dog.speed.vy)

SameSessionSaved(session, restored) ==
    /\ restored.map_id = session.map_id
    /\ restored.next_loot_id = session.next_loot_id
    /\ SameLoots(session.loots, restored.loots)
    /\ Len(restored.players) = Len(session.players)
    /\ \A j \in DOMAIN session.players :
          SamePlayerSaved(session.players[j], restored.players[j])

\* What a snapshot does not hold.
SamePlayerUnsaved(player, restored) ==
    /\ restored.play_time = player.play_time
    /\ restored.idle_time = player.idle_time
    /\ RoundedPosition(player.dog.previous_position, restored.dog.previous_position)

\* C12 as stated: after serialize and deserialize into a fresh game, every
\* session equals the original one up to the rounding of coordinates to 6
\* decimals.
C12_RoundTripEqual ==
    trip.phase = "restored" =>
        /\ Len(trip.restored) = Len(trip.game)
        /\ \A i \in DOMAIN trip.game :
              /\ SameSessionSaved(trip.game[i], trip.restored[i])
              /\ trip.restored[i].time_without_loot = trip.game[i].time_without_loot
              /\ \A j \in DOMAIN trip.game[i].players :
                    SamePlayerUnsaved(trip.game[i].players[j], trip.restored[i].players[j])

\* C12, amended: after serialize and deserialize into a fresh game, every
\* session has the map, the loot counter, the loots and the players of the
\* original one, every player its id, token, score, bag and bag capacity and
\* every dog its name, direction, position and speed, coordinates rounded to
\* 6 decimals; the play time and the idle time of every player, the previous
\* position of every dog and the time the session has been without loot
\* are those of a new player, dog and session.
C12_RoundTripOfSavedFields ==
    trip.phase = "restored" =>
        /\ Len(trip.restored) = Len(trip.game)
        /\ \A i \in DOMAIN trip.game :
              /\ SameSessionSaved(trip.game[i], trip.restored[i])
              /\ trip.restored[i].time_without_loot = 0
              /\ \A j \in DOMAIN trip.restored[i].players :
                    /\ trip.restored[i].players[j].play_time = 0
                    /\ trip.restored[i].players[j].idle_time = 0
                    /\ trip.restored[i].players[j].dog.previous_position = Position(0, 0)

C12_Witness ==
    /\ trip.phase = "restored"
    /\ trip.game # <<>>
    /\ \E j \in DOMAIN trip.game[1].players :
          /\ trip.game[1].players[j].play_time > 0
          /\ trip.game[1].players[j].bag # <<>>
          /\ trip.game[1].players[j].dog.direction = "WEST"
          /\ trip.game[1].players[j].dog.position # trip.restored[1].players[j].dog.position
    /\ trip.game[1].loots # <<>>

-----------------------------------------------------------------------------
(* The state file                                                          *)

\* C13: at every instant the state file is absent or holds one complete
\* snapshot, the previous one or the new one, whatever the interleaving of
\* the autosave of OnTick and of SaveNow.
C13_StateFileNeverPartial ==
    save.path # NoFile => IsComplete(save.files[save.path])

\* The phases of StateSerializer::Serialize.
SerializePhases == {"SerializeGame", "open", "write", "close", "rename"}

\* C14: with a save period of zero no OnTick writes a snapshot: the strand,
\* which runs OnTick, is never inside Serialize; SaveNow is not affected.
C14_ZeroPeriodDisablesAutosave ==
    save.save_period_ = 0 => save.strand.pc \notin SerializePhases

\* C20: a snapshot is never serialized while a tick is running: no writer
\* reads the game in SerializeGame while the strand or the game loop thread
\* is inside UpdateState.
C20_SnapshotBetweenTicks ==
    \A w \in Writers :
        save[w].pc = "SerializeGame" =>
            (save.strand.pc # "UpdateState" /\ save.loop # "UpdateState")

-----------------------------------------------------------------------------
(* The API: tokens, player actions, rejected requests                      *)

HexDigits == 0..15

\* C15: every join returns a token of exactly 32 hexadecimal digits, and no
\* two players hold the same token.
C15_TokensUniqueAnd32Hex ==
    /\ \A part1 \in RandomNumbers, part2 \in RandomNumbers :
          /\ Len(GenerateToken(part1, part2)) = 32
          /\ \A i \in 1..32 : GenerateToken(part1, part2)[i] \in HexDigits
    /\ \A ij \in Players, kl \in Players :
          ij # kl => PlayerAt(ij).token # PlayerAt(kl).token

\* The direction and the velocity a move code asks for.
DirectionOf(move, direction) ==
    CASE move = "L" -> "WEST"
      [] move = "R" -> "EAST"
      [] move = "U" -> "NORTH"
      [] move = "D" -> "SOUTH"
      [] move = "" -> direction

VelocityOf(move, s) ==
    CASE move = "L" -> Speed(-s, 0)
      [] move = "R" -> Speed(s, 0)
      [] move = "U" -> Speed(0, -s)
      [] move = "D" -> Speed(0, s)
      [] move = "" -> Speed(0, 0)

\* C16: a player action with code L, R, U or D turns the dog of the player
\* the token addresses to WEST, EAST, NORTH or SOUTH and sets its velocity
\* to (-s,0), (s,0), (0,-s) or (0,s), s being the dog speed of its map; the
\* empty code sets the velocity to (0,0) and keeps the direction; nothing
\* else changes: no other dog, no position, bag, score, loot, record or id.
C16_ActionSetsDirectionAndVelocity ==
    [][ last'.op = "action" =>
          LET move == last'.request.move
              found == FindPlayerByToken(sessions_, last'.request.token)
          IN  /\ move \in {"L", "R", "U", "D", ""}
              /\ found # <<>>
              /\ LET dog == sessions_[found[1]].players[found[2]].dog
                     s == maps_[dog.map_id].dog_speed
                 IN  sessions_' = [sessions_ EXCEPT
                         ![found[1]].players[found[2]].dog.direction =
                             DirectionOf(move, dog.direction),
                         ![found[1]].players[found[2]].dog.speed = VelocityOf(move, s)]
              /\ UNCHANGED <<next_player_id_, records, clock, update_period_>> ]_vars

C16_Witness ==
    /\ last.op = "action"
    /\ last.request.move = ""
    /\ \E ij \in Players, kl \in Players :
          /\ ij # kl
          /\ PlayerAt(ij).token = last.request.token
          /\ PlayerAt(ij).dog.direction = "WEST"
          /\ PlayerAt(ij).dog.speed = Speed(0, 0)
          /\ PlayerAt(kl).token # last.request.token
          /\ PlayerAt(kl).dog.speed # Speed(0, 0)

\* C17: a request rejected as invalid input (a tick with a negative
\* timeDelta, an action with an unknown move code, a records query with
\* maxItems <= 0 or > 100) changes nothing of the game: sessions, players,
\* dogs, loots, records, ids, tick period and game time stay as they were.
C17_InvalidInputChangesNothing ==
    [][ last'.op \in {"invalid_tick", "invalid_action", "invalid_records"} =>
          UNCHANGED <<sessions_, next_player_id_, records, clock, update_period_,
                      game_loop_running_, retired_player_callback_, action_count>> ]_vars

C17_Witness ==
    /\ last.op = "invalid_tick"
    /\ update_period_ = 1000
    /\ \E ij \in Players : PlayerAt(ij).dog.speed # Speed(0, 0)

\* C18: a join naming an unknown map is reported as not found and changes
\* nothing: no session is created, no player added, no player id consumed.
C18_UnknownMapChangesNothing ==
    [][ last'.op = "not_found" =>
          /\ sessions_' = sessions_
          /\ next_player_id_' = next_player_id_
          /\ UNCHANGED <<records, clock, update_period_>> ]_vars

C18_Witness ==
    /\ last.op = "not_found"
    /\ next_player_id_ = 1
    /\ Len(sessions_) = 1
    /\ Len(sessions_[1].players) = 1

\* C19: no tick runs while the retired-player callback is not installed.
C19_CallbackBeforeFirstTick ==
    last.op = "tick" => retired_player_callback_

-----------------------------------------------------------------------------
(* Properties of loading the state file (SpecLoad)                         *)

\* A session of the file that fails to load.
FailedSessions ==
    {i \in DOMAIN trip.snapshot[1].sessions :
        DeserializeSessionThrows(trip.snapshot[1].sessions[i])}

\* C21: on load, a failure of a session (a session of the file whose map_id
\* is not a configured map) is surfaced to the caller of Deserialize: when
\* the file holds such a session, Deserialize throws.
C21_SessionFailureSurfaced ==
    (trip.phase = "loaded" /\ FailedSessions # {}) => trip.thrown

-----------------------------------------------------------------------------
(* Properties of the move step (SpecMove), continued                       *)

\* Scenario S4: on the roads (0,0)-(10,0) and (10,0)-(10,10) the dog stood at
\* (10,0) and was moved with speed (5,5) for one second.
ScenarioS4 ==
    /\ walk.moved
    /\ walk.map.roads = <<HorizontalRoad(0, 0, 100), VerticalRoad(100, 0, 100)>>
    /\ walk.start = Position(100, 0)
    /\ walk.speed = Speed(50, 50)
    /\ walk.delta_time = 1

\* C22 as stated: in scenario S4 MoveDog returns (10.4, 0) or (10, 0.4) with
\* hit_boundary set, and the tick zeroes the speed of the dog.
C22_S4SlidesToCorner ==
    ScenarioS4 =>
        /\ walk.pos \in {Position(104, 0), Position(100, 4)}
        /\ walk.hit_boundary
        /\ walk.moved_dog.speed = Speed(0, 0)

\* C22 amended: in scenario S4 the target (15, 5) is clamped to the box of
\* the map, the clamped point (10.4, 5) lies on the vertical road and is
\* returned with hit_boundary set; the tick puts the dog there and zeroes
\* its speed.
C22_S4StopsAtMapBox ==
    ScenarioS4 =>
        /\ walk.pos = Position(104, 50)
        /\ walk.hit_boundary
        /\ walk.moved_dog.position = Position(104, 50)
        /\ walk.moved_dog.speed = Speed(0, 0)

\* C22 witness: the move of scenario S4 has been made.
C22_Witness == ScenarioS4 /\ walk.dog.speed = Speed(50, 50)

-----------------------------------------------------------------------------
(* Properties of the server, continued                                     *)

\* C23: the server ticks by the timer or by the tick endpoint, never by both:
\* when the tick period of the command line is positive, a request to the
\* tick endpoint (a HandleGameTick step) leaves every session as it was, and
\* when it is zero the game loop thread is not running.
C23_TimerOrEndpointNeverBoth ==
    [][ /\ (HandleGameTick /\ args.tick_period > 0) => sessions_' = sessions_
        /\ args.tick_period = 0 => ~game_loop_running_' ]_vars

\* The play time and the idle time of every player of a sequence.
TimesOf(players) ==
    [j \in DOMAIN players |->
        [play_time |-> players[j].play_time, idle_time |-> players[j].idle_time]]

\* The times the claim gives the players after a tick of delta_time seconds.
TimesAfterTick(players, delta_time) ==
    [j \in DOMAIN players |->
        [play_time |-> players[j].play_time + delta_time,
         idle_time |-> IF players[j].dog.speed # Speed(0, 0)
                       THEN 0 ELSE players[j].idle_time + delta_time]]

\* C24: a tick adds its delta_time to the play_time of every player, and sets
\* the idle_time to 0 where the dog had a speed when the tick began and adds
\* delta_time to it otherwise, for the players that stay as for those the
\* tick retires; no other step changes the play_time or the idle_time of a
\* player.
C24_TimesChangeOnlyByTicks ==
    [][ /\ last'.op = "tick" =>
              /\ DOMAIN sessions_' = DOMAIN sessions_
              /\ \A i \in DOMAIN sessions_ :
                    LET times == TimesAfterTick(sessions_[i].players, clock' - clock)
                    IN  /\ TimesOf(sessions_'[i].players) =
                              SelectSeq(times, LAMBDA t : t.idle_time < dog_retirement_time_)
                        /\ TimesOf(last'.ticks[i].retired) =
                              SelectSeq(times, LAMBDA t : t.idle_time >= dog_retirement_time_)
        /\ last'.op # "tick" =>
              \A i \in DOMAIN sessions_ :
                 /\ i \in DOMAIN sessions_'
                 /\ \A j \in DOMAIN sessions_[i].players :
                       /\ j \in DOMAIN sessions_'[i].players
                       /\ TimesOf(sessions_'[i].players)[j] = TimesOf(sessions_[i].players)[j]
      ]_vars

\* C24 witness: a tick has stopped a dog at a boundary (the dog was moving
\* when the tick began, so its idle_time is 0, and stands still now) while
\* the play_time of its player grew.
C24_Witness ==
    /\ last.op = "tick"
    /\ \E ij \in Players :
          LET player == PlayerAt(ij)
          IN  /\ player.dog.speed = Speed(0, 0)
              /\ player.idle_time = 0
              /\ player.play_time > 0

\* C25: after the move step of a tick in which MoveDog reported hit_boundary
\* for the dog, the speed of the dog is (0,0) and its direction is the one
\* it had before the tick; a dog whose move did not hit keeps its speed and
\* its direction.
C25_HitStopsAndKeepsDirection ==
    walk.moved =>
        /\ walk.moved_dog.direction = walk.dog.direction
        /\ walk.hit_boundary => walk.moved_dog.speed = Speed(0, 0)
        /\ ~walk.hit_boundary => walk.moved_dog.speed = walk.dog.speed

\* C25 witness: a dog that faced east and had a speed was stopped by a hit.
C25_Witness ==
    /\ walk.moved
    /\ walk.hit_boundary
    /\ walk.dog.direction = "EAST"
    /\ walk.dog.speed # Speed(0, 0)
    /\ walk.moved_dog.speed = Speed(0, 0)

\* The target of the last move: start + speed * delta_time.
WalkTarget ==
    Position(walk.start.x + walk.speed.vx * walk.delta_time,
             walk.start.y + walk.speed.vy * walk.delta_time)

\* C26: for a start position on a road, MoveDog returns hit_boundary set
\* exactly when the position it returns differs from the target
\* start + speed * delta_time, and clear when it returns the target.
C26_HitIffTargetNotReached ==
    (walk.moved /\ OnSomeRoad(walk.map, walk.start)) =>
        (walk.hit_boundary <=> walk.pos # WalkTarget)

\* C26 witness: a target outside the box of the map was clamped to a point
\* on a road, which MoveDog returned with hit_boundary set.
C26_Witness ==
    /\ walk.moved
    /\ OnSomeRoad(walk.map, walk.start)
    /\ walk.hit_boundary
    /\ LET b == GetExactMovementBounds(walk.map)
       IN  /\ WalkTarget.x > b.max.x \/ WalkTarget.y > b.max.y
           /\ walk.pos = Position(Clamp(WalkTarget.x, b.min.x, b.max.x),
                                  Clamp(WalkTarget.y, b.min.y, b.max.y))
           /\ walk.pos # walk.start

\* The ids of the loots of session i that exist in the given sessions: in
\* the world or in a bag.
LootIdsIn(all_sessions, i) ==
    {all_sessions[i].loots[k].id : k \in DOMAIN all_sessions[i].loots}
    \cup UNION { {all_sessions[i].players[j].bag[k].id :
                    k \in DOMAIN all_sessions[i].players[j].bag} :
                 j \in DOMAIN all_sessions[i].players }

\* C27: within a session no loot id is assigned twice.  Every id that exists
\* is below next_loot_id; a tick never lowers next_loot_id and gives the
\* loots it spawns the ids from the old next_loot_id up to the new one, each
\* once, so that they are greater than every id assigned before, also than
\* those of loots picked up or delivered; no other step changes the
\* next_loot_id of a session.
C27_LootIdsNeverReused ==
    [][ /\ \A i \in DOMAIN sessions_' :
              \A id \in LootIdsIn(sessions_', i) : id < sessions_'[i].next_loot_id
        /\ \A i \in DOMAIN sessions_ :
              /\ i \in DOMAIN sessions_'
              /\ sessions_'[i].next_loot_id >= sessions_[i].next_loot_id
              /\ last'.op # "tick" =>
                    sessions_'[i].next_loot_id = sessions_[i].next_loot_id
              /\ last'.op = "tick" =>
                    LET spawned == last'.ticks[i].spawned
                    IN  /\ sessions_'[i].next_loot_id =
                              sessions_[i].next_loot_id + Len(spawned)
                        /\ \A k \in DOMAIN spawned :
                              /\ spawned[k].id = sessions_[i].next_loot_id + k - 1
                              /\ \A id \in LootIdsIn(sessions_, i) : spawned[k].id > id
      ]_vars

\* C27 witness: a tick has spawned a loot in a session in which a loot with
\* a lower id was picked up before.
C27_Witness ==
    /\ last.op = "tick"
    /\ \E i \in DOMAIN sessions_ :
          /\ last.ticks[i].spawned # <<>>
          /\ \E j \in DOMAIN sessions_[i].players :
                \E k \in DOMAIN sessions_[i].players[j].bag :
                   sessions_[i].players[j].bag[k].id < last.ticks[i].spawned[1].id

-----------------------------------------------------------------------------
(* Properties of HandleCollisions (SpecCollide), continued                 *)

\* The orders of the events of the tick that are ascending in time and have,
\* among events of equal time, every pickup ahead of every delivery.
StableOrders ==
    { all_events \in AllEvents(collide.map, collide.players, collide.loots) :
        \A a, b \in DOMAIN all_events :
           (a < b /\ RatioEq(all_events[a].time, all_events[b].time)) =>
               ~(all_events[a].type = "OFFICE" /\ all_events[b].type = "LOOT") }

\* C28: the merge of the pickup and delivery events is stable: events of
\* equal time are applied with the pickups ahead of the deliveries, so the
\* players and loots after HandleCollisions are those that this order gives.
C28_MergeIsStable ==
    collide.done =>
        collide.result \in
            { HandleCollisions(collide.players, collide.loots, all_events) :
                all_events \in StableOrders }

\* The pickup events of the order all_events that reach a player whose bag
\* holds bag_capacity loots at that point of the order, for a loot no event
\* before has collected.
FullBagPickups(all_events) ==
    { k \in DOMAIN all_events :
        /\ all_events[k].type = "LOOT"
        /\ LET st == ProcessEvents(collide.players, collide.loots, all_events, k - 1)
               player == st.players[all_events[k].gatherer_id + 1]
           IN  /\ Len(player.bag) >= player.bag_capacity
               /\ collide.loots[all_events[k].item_id + 1].id \notin st.collected_loots }

\* C29: a pickup event that reaches a player whose bag is full collects
\* nothing and marks nothing collected: the bags, the scores and the set of
\* collected loots are the same after the event as before it, and after
\* HandleCollisions the loot lies in the world unless a later event of
\* another gatherer collected it.
C29_FullBagLeavesLoot ==
    collide.done =>
        \A all_events \in AllEvents(collide.map, collide.players, collide.loots) :
           HandleCollisions(collide.players, collide.loots, all_events) = collide.result =>
              \A k \in FullBagPickups(all_events) :
                 LET before == ProcessEvents(collide.players, collide.loots, all_events, k - 1)
                     after == ProcessEvents(collide.players, collide.loots, all_events, k)
                     loot == collide.loots[all_events[k].item_id + 1]
                 IN  /\ after = before
                     /\ \/ loot \in Range(collide.result.loots)
                        \/ \E k2 \in DOMAIN all_events :
                              /\ k2 > k
                              /\ all_events[k2].type = "LOOT"
                              /\ all_events[k2].item_id = all_events[k].item_id
                              /\ all_events[k2].gatherer_id # all_events[k].gatherer_id
                              /\ loot.id \in ProcessEvents(collide.players, collide.loots,
                                                           all_events, k2).collected_loots

\* C29 witness, scenario S2: a player with a bag of capacity 1 walked the
\* road from (0,0) to (10,0) past the loots at (3,0) and (7,0); the second
\* loot is the one left in the world.
C29_Witness ==
    /\ collide.done
    /\ Len(collide.players) = 1
    /\ collide.players[1].bag_capacity = 1
    /\ collide.players[1].bag = <<>>
    /\ collide.players[1].dog.previous_position = Position(0, 0)
    /\ collide.players[1].dog.position = Position(100, 0)
    /\ Len(collide.loots) = 2
    /\ collide.loots[1].position = Position(30, 0)
    /\ collide.loots[2].position = Position(70, 0)
    /\ collide.result.loots = <<collide.loots[2]>>
    /\ collide.result.players[1].score = collide.loots[1].value

-----------------------------------------------------------------------------
(* Properties of the failing sinks (SpecSink)                              *)

\* C30: a failure of the snapshot write in OnTick or of the record store in
\* the callback of a retired player does not abort the tick: whatever the
\* sinks do, the tick request is answered as a tick, the sessions after it
\* are an outcome of UpdateState on the sessions before it, the players it
\* retired are gone from their sessions, and no player due for retirement
\* is left; this holds for the ticks after a failure as for the first.
C30_SinkFailureDoesNotAbortTick ==
    [][ clock' # clock =>
          /\ last'.op = "tick"
          /\ \E outcomes \in GameUpdateState(sessions_, Len(sessions_), clock' - clock) :
                /\ sessions_' = [i \in DOMAIN outcomes |-> outcomes[i].session]
                /\ \A i \in DOMAIN outcomes : last'.ticks[i].retired = outcomes[i].retired
          /\ \A i \in DOMAIN last'.ticks :
                \A k \in DOMAIN last'.ticks[i].retired :
                   FindPlayerByToken(sessions_', last'.ticks[i].retired[k].token) = <<>>
          /\ \A i \in DOMAIN sessions_' :
                \A j \in DOMAIN sessions_'[i].players :
                   sessions_'[i].players[j].idle_time < dog_retirement_time_
      ]_vars

\* C30 witness: the record store and the disk were down at every tick (no
\* row, no snapshot, the failures on cerr), every player was retired and
\* removed, and the last tick of the exploration was made.
C30_Witness ==
    /\ clock = MaxSinkTicks
    /\ last.op = "tick"
    /\ Players = {}
    /\ records = <<>>
    /\ save.saved_at = <<>>
    /\ save.save_period_ = 1
    /\ save.cerr > MaxSinkTicks

-----------------------------------------------------------------------------
(* Properties of the Application (SpecApp)                                 *)

\* C31: on every Tick of the Application the listeners registered at that
\* moment are notified once each in the order of their insertion, and every
\* one of them is notified after the game was updated for that tick: it
\* finds the game_version the tick leaves.
C31_ListenersNotifiedAfterUpdate ==
    [][ conc'.ticks # conc.ticks =>
          /\ [k \in DOMAIN conc'.notified |-> conc'.notified[k].listener] = conc.listeners_
          /\ conc'.game_version = conc.game_version + 1
          /\ \A k \in DOMAIN conc'.notified :
                conc'.notified[k].game_version = conc'.game_version
      ]_vars

-----------------------------------------------------------------------------
(* Properties of the snapshot writers (SpecSave), continued                *)

\* C32: snapshots are persisted in both tick modes: every tick, run by the
\* game loop thread or by a tick request, notifies the snapshot listener:
\* whenever Game::UpdateState has changed the game, the thread that called
\* it is the strand and goes on to SerializingListener::OnTick.
C32_EveryTickNotifiesListener ==
    [][ save'.version # save.version =>
          (save.strand.pc = "UpdateState" /\ save'.strand.pc = "OnTick") ]_vars

\* C39: the snapshot written at shutdown holds the final state of the game:
\* once the signal handler has returned from SaveNow, the game is in the
\* state the handler serialized and no tick changes it any more.
C39_ShutdownSnapshotIsFinal ==
    save.signal.pc \in {"StopGameLoop", "done"} => save.signal.data = save.version

-----------------------------------------------------------------------------
(* Properties of the spawned loot (SpecSpawn)                              *)

\* C33: every loot a tick spawns has a type that is an index into the
\* loot-type catalog of the map of its session, 0 <= type < loot_types_count,
\* and the value of that catalog entry, on every configured map, the map
\* with an empty catalog included.
C33_SpawnedTypeIsInCatalog ==
    last.op = "tick" =>
        \A i \in DOMAIN last.ticks :
            LET loot_types == maps_[sessions_[i].map_id].loot_types
                spawned == last.ticks[i].spawned
            IN  \A k \in DOMAIN spawned :
                    /\ 0 <= spawned[k].type
                    /\ spawned[k].type < Len(loot_types)
                    /\ spawned[k].value = loot_types[spawned[k].type + 1]

-----------------------------------------------------------------------------
(* Properties of the loot generator (SpecS6)                               *)

\* The loots one call of a generator with an empty accumulator returns.
S6Fresh(call) ==
    S6Generate(0, call.time_delta, call.loot_count, call.looter_count,
               call.random_q2).generated

-----------------------------------------------------------------------------
(* Properties of the server (Spec), continued                              *)

\* C35: the ids of the players present in the game are pairwise distinct
\* after any snapshot load, joins and ticks, also when players restored
\* from a snapshot are followed by players who join.
C35_PlayerIdsDistinct ==
    \A ij \in Players, kl \in Players :
        ij # kl => PlayerAt(ij).id # PlayerAt(kl).id

\* C38: handling a tick request changes the state of the simulation only:
\* the tick period the game loop is configured with, the update period of
\* the game, is after the request what it was before it.
C38_TickRequestKeepsLoopPeriod ==
    [][ HandleGameTick => update_period_' = update_period_ ]_vars

-----------------------------------------------------------------------------
(* Properties of MoveDog (SpecMove), continued                             *)

\* C36: MoveDog changes only the coordinate along the direction of travel:
\* from a start on a road a purely horizontal speed returns a position with
\* the y of the start and a purely vertical speed a position with the x of
\* the start, also when the dog is stopped at the end of a road.
C36_MoveKeepsCrossCoordinate ==
    (walk.moved /\ OnSomeRoad(walk.map, walk.start)) =>
        /\ walk.speed.vy = 0 => walk.pos.y = walk.start.y
        /\ walk.speed.vx = 0 => walk.pos.x = walk.start.x

\* The number of equal steps that makes the points walk.start + k/n of the
\* way to walk.pos hit every crossing of the segment with a line x = c or
\* y = c of whole tenths, and a point between any two of them.
SegmentSteps(from, to) ==
    LET dx == Abs(to.x - from.x)
        dy == Abs(to.y - from.y)
    IN  IF dx = 0 \/ dy = 0 \/ dx = dy THEN 2 * Max(1, Max(dx, dy)) ELSE 2 * dx * dy

\* Whether every point of the straight segment from one position to the
\* other lies in the strip of some road: the points k/n of the way, with
\* coordinates multiplied by n.
SegmentOnRoads(map, from, to) ==
    LET n == SegmentSteps(from, to)
    IN  \A k \in 0..n :
            LET x == n * from.x + k * (to.x - from.x)
                y == n * from.y + k * (to.y - from.y)
            IN  \E r \in Range(map.roads) :
                    LET borders == GetBorders(r)
                    IN  /\ x >= n * borders.min.x /\ y >= n * borders.min.y
                        /\ x <= n * borders.max.x /\ y <= n * borders.max.y

\* C37: MoveDog never carries a dog across terrain that is no road: from a
\* start on a road, for any speed and delta_time, every point of the
\* straight segment from the start to the returned position lies in the
\* union of the road strips.
C37_NoShortcutAcrossTerrain ==
    (walk.moved /\ OnSomeRoad(walk.map, walk.start)) =>
        SegmentOnRoads(walk.map, walk.start, walk.pos)

-----------------------------------------------------------------------------
(* Properties of the game loop thread (SpecLoopFair)                       *)

\* C40: StopGameLoop terminates: once the running flag is cleared the loop
\* thread makes at most one more tick and sleep and finishes, StopGameLoop
\* returns, and the loop calls no UpdateState after it has returned;
\* StartGameLoop while the loop runs starts no second loop thread.
C40_StopGameLoopTerminates ==
    /\ [](conc.ticks_after_clear <= 1)
    /\ [](conc.returned => LiveThreads = {})
    /\ [](Cardinality(LiveThreads) <= 1 /\ conc.ctl # "terminate")
    /\ (conc.ctl = "Stop_join") ~> (conc.ctl = "idle" /\ conc.returned)
    /\ (~conc.game_loop_running_ /\ conc.ctl = "Stop_join") ~> (LiveThreads = {})

\* C40 happens: StopGameLoop has returned after the loop made a tick with
\* the flag already cleared, and before that a StartGameLoop found the
\* loop running.
C40_Witness ==
    /\ conc.returned
    /\ conc.ctl = "idle"
    /\ conc.ticks_after_clear = 1
    /\ conc.calls = 3
    /\ Len(conc.threads) = 1

====
